---- MODULE Spec2Model ----
(***************************************************************************)
(* A model of the FOC motor-control core: the PI primitive, the PMSM plant *)
(* model, the FOC sector logic, the flux-weakening controller, the RLS     *)
(* parameter identifier and the disturbance-rejection mode selector.       *)
(*                                                                         *)
(* Real-valued quantities of the Python code are exact rationals, records  *)
(* [n |-> numerator, d |-> denominator] in lowest terms with d > 0, so     *)
(* that gains such as 0.5, 0.95 or 0.99 and quotients such as              *)
(* -(flux + Lq*iq)/Ld are computed as the code computes them, without      *)
(* rounding.  The one floating-point effect that is modelled is the        *)
(* rounding of the final addition in an angle wrap (x % 2*pi and           *)
(* angle += 2*pi), because it decides which range the result lies in.      *)
(***************************************************************************)
EXTENDS Integers, Sequences, FiniteSets, TLC

VARIABLES
    pi,         \* a PIController instance: gains, limits, integral, prev_error
    piLast,     \* the last call made on it: arguments, unclamped and returned output
    piRun,      \* what the calls since the last reset() have been
    plant,      \* PMSMModel state: id, iq, wr, theta_e, load_torque
    plantLast,  \* the last call made on the PMSMModel and what it returned
    plantTicks, \* number of PMSMModel.update calls made so far
    plantNonFinite, \* the fields of the PMSMModel that hold NaN or +-Inf
    svm,        \* the last FOCController.get_sector call: arctan2 result, sector
    foc,        \* a FOCController: its three PI controllers, references and
                \* voltage command, and the last call made on it
    fw,         \* FluxWeakeningController: fw_controller, id_fw, in_flux_weakening
    fwLast,     \* the last call made on it: arguments, returned value, error raised
    optCall,    \* the last get_optimal_current_references call: the record the
                \* controller was loaded from, arguments, returned pair
    ident,      \* MotorParameterIdentification: estimators, identified values
    rlsLast,    \* the last identify_* call and the rls_update invocations it made
    identification_enabled, \* MotorParameterIdentification.identification_enabled
    identRun,   \* the last update / load call on it and the ident before it, the
                \* number of enabled update calls since the last reset()
    dr,         \* DisturbanceRejectionController: control_mode
    drLast,     \* the last set_control_mode call: argument, error raised, mode before
    drHistory,  \* every set_control_mode call so far: argument, error raised
    drCore,     \* the rest of the DisturbanceRejectionController: observer,
                \* adaptive and robust controllers, buffers, performance_metrics
    drUpd,      \* the last update / reset call made on it and what it returned
    drSamples,  \* what every update call since the last reset() appended
    params,        \* the attributes each component holds that come from a parameter
                \* file: the loaded fields, and the gains and limits derived from them
    reload,     \* MotorControlSimulation.load_parameters: the file, the component
                \* to load next, the attributes before it began, whether it failed
    observed,   \* the attributes the last simulation_step worked with
    is_running, \* MotorControlSimulation.is_running
    threads,    \* where every simulation_loop thread started so far is
    simulation_time, \* MotorControlSimulation.simulation_time, in sample times
    tick        \* the last simulation_step: switches, calls made in order, the
                \* d-axis references, FOCController.id_ref

piVars == <<pi, piLast, piRun>>

plantVars == <<plant, plantLast, plantTicks, plantNonFinite>>

focVars == <<svm, foc>>

fwVars == <<fw, fwLast, optCall>>

latchVars == <<identification_enabled, identRun>>

identVars == <<ident, rlsLast, identification_enabled, identRun>>

drVars == <<dr, drLast, drHistory, drCore, drUpd, drSamples>>

cfgVars == <<params, reload, observed>>

loopVars == <<is_running, threads, simulation_time>>

hostVars == <<params, reload, observed, is_running, threads, simulation_time, tick>>

vars == <<pi, piLast, piRun, plant, plantLast, plantTicks, plantNonFinite, svm, foc, fw, fwLast,
         optCall,
         ident, rlsLast, identification_enabled, identRun, dr, drLast, drHistory, drCore, drUpd, drSamples,
         params, reload, observed, is_running, threads, simulation_time, tick>>

----------------------------------------------------------------------------
(* Exact rational arithmetic (the model's stand-in for Python floats).     *)

Abs(x) == IF x < 0 THEN -x ELSE x

Sign(x) == IF x > 0 THEN 1 ELSE IF x < 0 THEN -1 ELSE 0

RECURSIVE GCD(_, _)
GCD(a, b) ==
    IF b = 0 THEN a ELSE CHOOSE g \in { GCD(x[1], x[2]) : x \in {<<b, a % b>>} } : TRUE

\* n/d in lowest terms, d > 0
Rat(n, d) ==
    CHOOSE r \in { [n |-> x[1] \div x[3], d |-> x[2] \div x[3]] :
                     x \in { <<y[1], y[2], GCD(Abs(y[1]), y[2])>> :
                             y \in {IF d < 0 THEN <<-n, -d>> ELSE <<n, d>>} } } : TRUE

RInt(k) == [n |-> k, d |-> 1]

QAdd(a, b) == Rat(a.n * b.d + b.n * a.d, a.d * b.d)

QSub(a, b) == Rat(a.n * b.d - b.n * a.d, a.d * b.d)

QMul(a, b) == Rat(a.n * b.n, a.d * b.d)

\* a / b, b # 0
QDiv(a, b) == Rat(a.n * b.d, a.d * b.n)

QNeg(a) == [n |-> -a.n, d |-> a.d]

QAbs(a) == [n |-> Abs(a.n), d |-> a.d]

QLt(a, b) == a.n * b.d < b.n * a.d

QLe(a, b) == a.n * b.d <= b.n * a.d

QGt(a, b) == QLt(b, a)

QGe(a, b) == QLe(b, a)

Zero == RInt(0)

\* np.clip(x, lo, hi)
QClip(x, lo, hi) == IF QLt(x, lo) THEN lo ELSE IF QGt(x, hi) THEN hi ELSE x

----------------------------------------------------------------------------
(* Bounds of the model.                                                    *)

\* errors passed to PIController.update are the integers -MaxErr .. MaxErr
MaxErr == 10

\* dt passed to PIController.update is k/10 s for k in 1 .. MaxDtTenths
MaxDtTenths == 2

\* PIController.update is explored while |integral| <= MaxIntegral
MaxIntegral == 3

\* the max_current of the configuration record (A)
MaxCurrent == 4

----------------------------------------------------------------------------
(* PIController (foc_control.py, duplicated in flux_weakening.py).         *)

\* The controllers the program constructs, plus the scenario of the spec
\* (Kp = 1, Ki = 1, limits [-1, 1]) and a controller without limits
\* (output_limit = None, the constructor's default).
PIConfigs ==
    { [kp |-> RInt(1),   ki |-> RInt(1),  limited |-> TRUE,
       lo |-> RInt(-1),  hi |-> RInt(1)],
      [kp |-> Rat(1, 2), ki |-> RInt(10), limited |-> TRUE,
       lo |-> RInt(-MaxCurrent), hi |-> Zero],
      [kp |-> Rat(1, 2), ki |-> RInt(5),  limited |-> TRUE,
       lo |-> RInt(-MaxCurrent), hi |-> RInt(MaxCurrent)],
      [kp |-> RInt(1),   ki |-> RInt(1),  limited |-> FALSE,
       lo |-> Zero, hi |-> Zero] }

\* PIController.__init__
PINew(cfg) ==
    [kp |-> cfg.kp, ki |-> cfg.ki, limited |-> cfg.limited,
     lo |-> cfg.lo, hi |-> cfg.hi, integral |-> Zero, prev_error |-> Zero]

\* PIController.reset
PIResetState(c) == [c EXCEPT !.integral = Zero, !.prev_error = Zero]

\* output = p_term + i_term, with the integral already advanced by error*dt
PIRawOutput(c, error, dt) ==
    QAdd(QMul(c.kp, error), QMul(c.ki, QAdd(c.integral, QMul(error, dt))))

PIClampNoLow(c, output) ==
    IF c.limited /\ QGt(output, c.hi) THEN c.hi ELSE output

\* the saturation of the output at output_limit
PIClamp(c, output) ==
    IF ~c.limited THEN output
    ELSE IF QGt(output, c.hi) THEN c.hi
    ELSE IF QLt(output, c.lo) THEN c.lo
    ELSE output

PIAntiWindupSwapped(c, error, dt, output) ==
    LET advanced == QAdd(c.integral, QMul(error, dt))
    IN  IF ~c.limited THEN advanced
        ELSE IF QGt(output, c.hi)
             THEN IF QLt(error, Zero) THEN QSub(advanced, QMul(error, dt))
                  ELSE advanced
        ELSE IF QLt(output, c.lo)
             THEN IF QGt(error, Zero) THEN QSub(advanced, QMul(error, dt))
                  ELSE advanced
        ELSE advanced

PIAntiWindupNever(c, error, dt, output) == QAdd(c.integral, QMul(error, dt))

\* the integral after update: advanced by error*dt, and rolled back by the same
\* amount when the output saturates and the error drives further saturation
PIAntiWindup(c, error, dt, output) ==
    LET advanced == QAdd(c.integral, QMul(error, dt))
    IN  IF ~c.limited THEN advanced
        ELSE IF QGt(output, c.hi)
             THEN IF QGt(error, Zero) THEN QSub(advanced, QMul(error, dt))
                  ELSE advanced
        ELSE IF QLt(output, c.lo)
             THEN IF QLt(error, Zero) THEN QSub(advanced, QMul(error, dt))
                  ELSE advanced
        ELSE advanced

\* PIController.update: the controller after the call and the value returned
PIStep(c, error, dt) ==
    LET raw == PIRawOutput(c, error, dt)
    IN  [ctl |-> [c EXCEPT !.integral = PIAntiWindup(c, error, dt, raw)],
         raw |-> raw,
         out |-> PIClamp(c, raw)]

PIErrors == { RInt(e) : e \in -MaxErr .. MaxErr }

PIDts == { Rat(k, 10) : k \in 1 .. MaxDtTenths }

NoCall == [op |-> "none", error |-> Zero, dt |-> Zero, before |-> Zero,
           raw |-> Zero, out |-> Zero]

\* the calls since reset() were all update(10, 0.1): one, or more than one
PIConstRun == {"const10_once", "const10_many"}

PIStart ==
    /\ pi \in { PINew(cfg) : cfg \in PIConfigs }
    /\ piLast = NoCall
    /\ piRun = "fresh"

\* a constructed controller nobody calls
PIIdle ==
    /\ pi = PINew(CHOOSE cfg \in PIConfigs : ~cfg.limited)
    /\ piLast = NoCall
    /\ piRun = "fresh"

PIUpdate ==
    \E error \in PIErrors, dt \in PIDts :
        LET r == PIStep(pi, error, dt)
        IN  /\ QLe(QAbs(r.ctl.integral), RInt(MaxIntegral))
            /\ pi' = r.ctl
            /\ UNCHANGED <<plantVars, focVars, fwVars, identVars, drVars, hostVars>>
            /\ piLast' = [op |-> "update", error |-> error, dt |-> dt,
                          before |-> pi.integral, raw |-> r.raw, out |-> r.out]
            /\ piRun' = IF error = RInt(10) /\ dt = Rat(1, 10)
                        THEN CASE piRun = "fresh" -> "const10_once"
                               [] piRun \in PIConstRun -> "const10_many"
                               [] OTHER -> "mixed"
                        ELSE "mixed"

PIReset ==
    /\ pi' = PIResetState(pi)
    /\ piLast' = [NoCall EXCEPT !.op = "reset", !.before = pi.integral]
    /\ piRun' = "fresh"
    /\ UNCHANGED <<plantVars, focVars, fwVars, identVars, drVars, hostVars>>

NextPI == PIUpdate \/ PIReset

----------------------------------------------------------------------------
(* Floating point.  A stored float keeps MantBits significant bits: an     *)
(* integer number of quanta x is representable when |x| < 2^MantBits, or   *)
(* when it is a multiple of the power of two that brings it below that.    *)
(* The plant state and the angles of the FOC sector logic are such floats. *)

\* significant bits of a float
MantBits == 6

\* a / b rounded to the nearest integer, ties to even (b > 0)
RoundDiv(a, b) ==
    LET q == a \div b
        r == a % b
    IN  IF 2 * r > b \/ (2 * r = b /\ q % 2 = 1) THEN q + 1 ELSE q

RECURSIVE Quantum(_, _)
\* the spacing of the floats around a value of magnitude a
Quantum(a, q) == IF a < (2 ^ MantBits) * q THEN q ELSE Quantum(a, 2 * q)

\* x rounded to the nearest float
Fl(x) == LET q == Quantum(Abs(x), 1) IN RoundDiv(x, q) * q

\* math.fmod(x, m), m > 0: exact, with the sign of x
FMod(x, m) == IF x >= 0 THEN x % m ELSE -((-x) % m)

\* Python's float x % m, m > 0: fmod, and a negative remainder gets m added;
\* that addition is a float addition and rounds
PyMod(x, m) ==
    LET r == FMod(x, m)
    IN  IF r < 0 THEN Fl(r + m) ELSE r

\* Angles are counted in quanta of (pi/3) / 2^(MantBits-1) rad, so that the
\* sector boundaries k*pi/3 and 2*pi are floats.
Pi3 == 2 ^ (MantBits - 1)

TwoPi == 6 * Pi3

----------------------------------------------------------------------------
(* PMSMModel (motor_model.py).                                             *)

\* quanta per unit of voltage, current and speed
PlantScale == 2 ^ (MantBits - 2)

\* explicit Euler sub-steps that stand for odeint over one sample interval
PlantSubSteps == 2

\* PMSMModel.update is explored for this many calls
MaxPlantTicks == 3

\* ... and while |id|, |iq|, |wr| stay within this many units
MaxPlantState == 12

\* arguments of apply_voltage_limits / apply_current_limits: -MaxClampArg .. MaxClampArg
MaxClampArg == 3

\* A number base * sqrt(sq), sq a non-negative rational: what np.sqrt and the
\* scaling by v_max / v_mag produce from rational arguments.
Surd(base, sq) == [base |-> base, sq |-> sq]

Plain(x) == Surd(x, RInt(1))

\* the parameter record load_parameters reads (model units; sample_time = 1).
\* dc_bus_voltage is 3*sqrt(3) V, so that v_max = dc_bus_voltage / sqrt(3) = 3 V.
MotorParams ==
    [poles |-> 2, Rs |-> 1, Ld |-> 1, Lq |-> 1, flux_linkage |-> 1,
     J |-> 1, B |-> 0, max_current |-> MaxCurrent,
     dc_bus_voltage |-> Surd(3, RInt(3)), sample_time |-> 1]

\* PMSMModel.reset_state
PlantRest == [id |-> 0, iq |-> 0, wr |-> 0, theta_e |-> 0, load_torque |-> 0]

\* the reluctance term of the torque alone
TwoTeReluctanceOnly(p, id, iq) ==
    RoundDiv(3 * p.poles * ((p.Ld - p.Lq) * id * iq), PlantScale)

\* twice the electromagnetic torque, in quanta:
\* Te = 1.5 * poles * (flux * iq + (Ld - Lq) * id * iq)
TwoTe(p, id, iq) ==
    RoundDiv(3 * p.poles * (p.flux_linkage * iq * PlantScale + (p.Ld - p.Lq) * id * iq),
             PlantScale)

\* PMSMModel.electrical_dynamics integrated over h = hn/hd by one Euler step
EulerStep(p, st, vd, vq, load, hn, hd) ==
    LET S    == PlantScale
        did  == S * vd - S * p.Rs * st.id + st.wr * p.Lq * st.iq
        diq  == S * vq - S * p.Rs * st.iq - st.wr * p.Ld * st.id
                    - S * st.wr * p.flux_linkage
        dwr2 == TwoTe(p, st.id, st.iq) - 2 * load - 2 * p.B * st.wr
    IN  [id      |-> Fl(st.id + RoundDiv(hn * did, hd * S * p.Ld)),
         iq      |-> Fl(st.iq + RoundDiv(hn * diq, hd * S * p.Lq)),
         wr      |-> Fl(st.wr + RoundDiv(hn * dwr2, hd * 2 * p.J)),
         theta_e |-> Fl(st.theta_e + RoundDiv(hn * st.wr, hd)),
         load_torque |-> st.load_torque]

RECURSIVE Integrate(_, _, _, _, _, _)
\* odeint over [0, sample_time]: k Euler sub-steps of sample_time / PlantSubSteps
Integrate(p, st, vd, vq, load, k) ==
    IF k = 0 THEN st
    ELSE Integrate(p, EulerStep(p, st, vd, vq, load, p.sample_time, PlantSubSteps),
                   vd, vq, load, k - 1)

\* self.theta_e = self.theta_e % (2 * np.pi)
WrapAngle(theta) == PyMod(theta, TwoPi)

\* PMSMModel.update: the state after the call
PlantStep(p, st, vd, vq, load) ==
    LET sol == Integrate(p, st, vd, vq, load, PlantSubSteps)
    IN  [sol EXCEPT !.theta_e = WrapAngle(sol.theta_e), !.load_torque = load]

ScaleInverted(limitSq, x, y) ==
    IF QGt(RInt(x * x + y * y), limitSq)
    THEN QDiv(RInt(x * x + y * y), limitSq)
    ELSE RInt(1)

\* the square of the factor a circular clamp applies to (x, y):
\* limit / sqrt(x^2 + y^2) if the magnitude exceeds the limit, else 1
ClampScaleSq(limitSq, x, y) ==
    IF QGt(RInt(x * x + y * y), limitSq)
    THEN QDiv(limitSq, RInt(x * x + y * y))
    ELSE RInt(1)

\* v_max^2 = (dc_bus_voltage / sqrt(3))^2
VMaxSq(p) ==
    QDiv(QMul(RInt(p.dc_bus_voltage.base * p.dc_bus_voltage.base),
              p.dc_bus_voltage.sq),
         RInt(3))

\* PMSMModel.apply_voltage_limits
ApplyVoltageLimits(p, vd, vq) ==
    LET sq == ClampScaleSq(VMaxSq(p), vd, vq)
    IN  <<Surd(vd, sq), Surd(vq, sq)>>

\* PMSMModel.apply_current_limits
ApplyCurrentLimits(p, id_ref, iq_ref) ==
    LET sq == ClampScaleSq(RInt(p.max_current * p.max_current), id_ref, iq_ref)
    IN  <<Surd(id_ref, sq), Surd(iq_ref, sq)>>

\* voltages applied to the plant, in quanta: 0, +-1/8 V, +-1/4 V and 5 V
PlantVoltages == { 0, -(PlantScale \div 8), -(PlantScale \div 4),
                   PlantScale \div 8, 5 * PlantScale }

PlantLoads == { 0 }

NoPlantCall ==
    [op |-> "none", a |-> 0, b |-> 0, before |-> PlantRest, raw |-> 0,
     theta_ret |-> 0, outA |-> Plain(0), outB |-> Plain(0), phases |-> <<0, 0, 0>>]

PlantIdle ==
    /\ plant = PlantRest
    /\ plantLast = NoPlantCall
    /\ plantTicks = 0
    /\ plantNonFinite = {}

PlantWithin(st) ==
    /\ Abs(st.id) <= MaxPlantState * PlantScale
    /\ Abs(st.iq) <= MaxPlantState * PlantScale
    /\ Abs(st.wr) <= MaxPlantState * PlantScale

PlantUpdate ==
    \E vd \in {0}, vq \in PlantVoltages, load \in PlantLoads :
        LET st == PlantStep(MotorParams, plant, vd, vq, load)
        IN  /\ plantTicks < MaxPlantTicks
            /\ plantNonFinite = {}
            /\ PlantWithin(st)
            /\ plant' = st
            /\ plantTicks' = plantTicks + 1
            /\ plantLast' = [NoPlantCall EXCEPT !.op = "update", !.a = vd, !.b = vq,
                   !.before = plant,
                   !.raw = Integrate(MotorParams, plant, vd, vq, load,
                                     PlantSubSteps).theta_e,
                   !.theta_ret = st.theta_e]
            /\ UNCHANGED <<plantNonFinite, piVars, focVars, fwVars, identVars, drVars, hostVars>>

PlantResetState ==
    /\ plant' = PlantRest
    /\ plantLast' = [NoPlantCall EXCEPT !.op = "reset_state", !.before = plant]
    /\ plantNonFinite' = {}
    /\ UNCHANGED <<plantTicks, piVars, focVars, fwVars, identVars, drVars, hostVars>>

PlantApplyVoltageLimits ==
    \E vd \in -MaxClampArg .. MaxClampArg, vq \in -MaxClampArg .. MaxClampArg :
        LET r == ApplyVoltageLimits(MotorParams, vd, vq)
        IN  /\ plantLast' = [NoPlantCall EXCEPT !.op = "apply_voltage_limits",
                   !.a = vd, !.b = vq, !.before = plant,
                   !.outA = r[1], !.outB = r[2]]
            /\ UNCHANGED <<plant, plantTicks, plantNonFinite, piVars, focVars, fwVars,
                           identVars, drVars, hostVars>>

PlantApplyCurrentLimits ==
    \E id_ref \in -MaxClampArg .. MaxClampArg, iq_ref \in -MaxClampArg .. MaxClampArg :
        LET r == ApplyCurrentLimits(MotorParams, id_ref, iq_ref)
        IN  /\ plantLast' = [NoPlantCall EXCEPT !.op = "apply_current_limits",
                   !.a = id_ref, !.b = iq_ref, !.before = plant,
                   !.outA = r[1], !.outB = r[2]]
            /\ UNCHANGED <<plant, plantTicks, plantNonFinite, piVars, focVars, fwVars,
                           identVars, drVars, hostVars>>

\* What each component of the derivative returned by electrical_dynamics,
\* and so each component of the integrated state, is computed from.
PlantDependsOn ==
    [id      |-> {"vd", "id", "wr", "iq"},
     iq      |-> {"vq", "iq", "wr", "id"},
     wr      |-> {"iq", "id", "load_torque", "wr"},
     theta_e |-> {"wr", "theta_e"}]

RECURSIVE NonFiniteClosure(_)
\* The quantities that are NaN or +-Inf once the integrator has evaluated the
\* derivatives repeatedly: sums, differences and products with a NaN or Inf
\* operand, divided by a finite parameter, are NaN or Inf.
NonFiniteClosure(nf) ==
    LET more == nf \cup { f \in DOMAIN PlantDependsOn : PlantDependsOn[f] \cap nf # {} }
    IN  IF more = nf THEN nf ELSE NonFiniteClosure(more)

\* the state fields that hold NaN or +-Inf after update(vd, vq, load_torque),
\* given the state fields and the arguments that are NaN or +-Inf before it.
\* update stores solution[-1], theta_e % (2*pi) and load_torque as they are.
NonFiniteAfterUpdate(stateNF, argNF) ==
    (NonFiniteClosure((stateNF \ {"load_torque"}) \cup argNF)
         \cap {"id", "iq", "wr", "theta_e"})
    \cup (argNF \cap {"load_torque"})

\* PMSMModel.update with an argument that is NaN or +-Inf, or on a state that
\* holds one.  The numbers kept in plant for such fields have no meaning.
PlantUpdateNonFinite ==
    \E argNF \in SUBSET {"vd", "vq", "load_torque"} :
        /\ plantTicks < MaxPlantTicks
        /\ argNF # {} \/ plantNonFinite # {}
        /\ plantNonFinite' = NonFiniteAfterUpdate(plantNonFinite, argNF)
        /\ plant' = PlantRest
        /\ plantTicks' = plantTicks + 1
        /\ plantLast' = [NoPlantCall EXCEPT !.op = "update", !.before = plant]
        /\ UNCHANGED <<piVars, focVars, fwVars, identVars, drVars, hostVars>>

\* a / b rounded to the nearest float (b > 0)
FlDiv(a, b) == LET q == Quantum(Abs(a) \div b, 1) IN RoundDiv(a, b * q) * q

\* cosines and sines are counted in TrigScale-ths
TrigScale == 2 ^ MantBits

\* np.sqrt(3)/2, which is also sin(pi/3), as a float
Sqrt3Half ==
    CHOOSE m \in TrigScale \div 2 .. TrigScale :
        /\ (2 * m - 1) * (2 * m - 1) < 3 * TrigScale * TrigScale
        /\ 3 * TrigScale * TrigScale < (2 * m + 1) * (2 * m + 1)

\* np.cos and np.sin of the angles k*pi/3 in [0, 2*pi)
Cos(theta) ==
    <<TrigScale, TrigScale \div 2, -(TrigScale \div 2), -TrigScale,
      -(TrigScale \div 2), TrigScale \div 2>>[theta \div Pi3 + 1]

Sin(theta) ==
    <<0, Sqrt3Half, Sqrt3Half, 0, -Sqrt3Half, -Sqrt3Half>>[theta \div Pi3 + 1]

\* the phase currents are counted in PhaseFine-ths of a quantum of the state:
\* a float has an exponent, and the products below keep MantBits bits
PhaseFine == 2 ^ (MantBits + 2)

\* i_alpha and i_beta of get_three_phase_currents
AlphaBeta(st) ==
    LET id == st.id * PhaseFine
        iq == st.iq * PhaseFine
        c  == Cos(st.theta_e)
        sn == Sin(st.theta_e)
    IN  <<Fl(FlDiv(id * c, TrigScale) - FlDiv(iq * sn, TrigScale)),
          Fl(FlDiv(id * sn, TrigScale) + FlDiv(iq * c, TrigScale))>>

\* ... with the sign of the last term of ic wrong
GetThreePhaseCurrentsSameSign(st) ==
    LET ab == AlphaBeta(st)
        h  == FlDiv(-ab[1], 2)
        t  == FlDiv(Sqrt3Half * ab[2], TrigScale)
    IN  <<ab[1], Fl(h + t), Fl(h + t)>>

\* PMSMModel.get_three_phase_currents: <<ia, ib, ic>>; it assigns no attribute
GetThreePhaseCurrents(st) ==
    LET ab == AlphaBeta(st)
        h  == FlDiv(-ab[1], 2)
        t  == FlDiv(Sqrt3Half * ab[2], TrigScale)
    IN  <<ab[1], Fl(h + t), Fl(h - t)>>

\* the states the phase currents are asked for: currents of up to
\* MaxPhaseSteps quarters of a unit, angles k*pi/3
MaxPhaseSteps == 12

PhaseStates ==
    { [PlantRest EXCEPT !.id = i * (PlantScale \div 4), !.iq = j * (PlantScale \div 4),
                        !.theta_e = k * Pi3]
      : i \in -MaxPhaseSteps .. MaxPhaseSteps, j \in -MaxPhaseSteps .. MaxPhaseSteps,
        k \in 0 .. 5 }

PlantGetThreePhaseCurrents ==
    /\ plant.theta_e % Pi3 = 0
    /\ plantLast' = [NoPlantCall EXCEPT !.op = "get_three_phase_currents",
                                        !.before = plant,
                                        !.phases = GetThreePhaseCurrents(plant)]
    /\ UNCHANGED <<plant, plantTicks, plantNonFinite, piVars, focVars, fwVars,
                   identVars, drVars, hostVars>>

NextPhase == PlantGetThreePhaseCurrents

NextPlant == PlantUpdate \/ PlantResetState

NextPlantNonFinite == PlantUpdate \/ PlantUpdateNonFinite \/ PlantResetState

NextLimits == PlantApplyVoltageLimits \/ PlantApplyCurrentLimits

----------------------------------------------------------------------------
(* FOCController (foc_control.py): sector of the reference voltage vector. *)

\* what np.arctan2 returns: the floats of [-pi, pi]
AtanResults == { a \in -(3 * Pi3) .. 3 * Pi3 : Fl(a) = a }

GetSectorNoClamp(a) ==
    LET angle == IF a < 0 THEN Fl(a + TwoPi) ELSE a
    IN  (angle \div Pi3) + 1

\* FOCController.get_sector, from angle = np.arctan2(v_beta, v_alpha) on.
\* angle / (pi/3) is exact here (pi/3 is a power of two of quanta), so int()
\* of it is the integer quotient.
GetSector(a) ==
    LET angle  == IF a < 0 THEN Fl(a + TwoPi) ELSE a
        sector == (angle \div Pi3) + 1
    IN  IF sector > 6 THEN 6 ELSE sector

NoSectorCall == [op |-> "none", atan |-> 0, sector |-> 1]

FOCGetSector ==
    \E a \in AtanResults :
        /\ svm' = [op |-> "get_sector", atan |-> a, sector |-> GetSector(a)]
        /\ UNCHANGED <<foc, piVars, plantVars, fwVars, identVars, drVars, hostVars>>

NextFOC == FOCGetSector

\* Numbers a + b*sqrt(3) with rational a and b: the alpha-beta voltages at the
\* angles k*pi/6, the dc bus voltage and what space_vector_modulation makes of
\* them.
Q3(a, b) == [a |-> a, b |-> b]

Q3Rat(q) == Q3(q, Zero)

Q3Add(x, y) == Q3(QAdd(x.a, y.a), QAdd(x.b, y.b))

Q3Neg(x) == Q3(QNeg(x.a), QNeg(x.b))

Q3Sub(x, y) == Q3Add(x, Q3Neg(y))

Q3Mul(x, y) ==
    Q3(QAdd(QMul(x.a, y.a), QMul(RInt(3), QMul(x.b, y.b))),
       QAdd(QMul(x.a, y.b), QMul(x.b, y.a)))

\* x / y, y # 0: x * (y.a - y.b*sqrt(3)) / (y.a^2 - 3*y.b^2)
Q3Div(x, y) ==
    LET norm == QSub(QMul(y.a, y.a), QMul(RInt(3), QMul(y.b, y.b)))
        num  == Q3Mul(x, Q3(y.a, QNeg(y.b)))
    IN  Q3(QDiv(num.a, norm), QDiv(num.b, norm))

\* -1, 0 or 1
Q3Sign(x) ==
    LET sa == Sign(x.a.n)
        sb == Sign(x.b.n)
        a2 == QMul(x.a, x.a)
        b2 == QMul(RInt(3), QMul(x.b, x.b))
    IN  IF sb = 0 THEN sa
        ELSE IF sa = 0 \/ sa = sb THEN sb
        ELSE IF QGt(a2, b2) THEN sa
        ELSE IF QLt(a2, b2) THEN sb
        ELSE 0

Q3Le(x, y) == Q3Sign(Q3Sub(x, y)) <= 0

Sqrt3 == Q3(Zero, RInt(1))

\* load_parameters: dc_bus_voltage, 3*sqrt(3) V as in MotorParams
FOCDcBus == Q3(Zero, RInt(MotorParams.dc_bus_voltage.base))

\* space_vector_modulation: t1 and t2 of the sector, before the division by
\* the dc bus voltage
SVMTimes(v_alpha, v_beta, sector) ==
    LET r3b == Q3Mul(Sqrt3, v_beta)
        two == Q3Rat(RInt(2))
    IN  CASE sector = 1 -> <<Q3Sub(r3b, v_alpha), Q3Mul(two, v_alpha)>>
          [] sector = 2 -> <<Q3Add(r3b, v_alpha), Q3Add(Q3Neg(r3b), v_alpha)>>
          [] sector = 3 -> <<Q3Mul(two, v_beta), Q3Sub(Q3Neg(r3b), v_alpha)>>
          [] sector = 4 -> <<Q3Sub(Q3Neg(r3b), v_alpha), Q3Neg(Q3Mul(two, v_alpha))>>
          [] sector = 5 -> <<Q3Add(Q3Neg(r3b), v_alpha), Q3Add(r3b, v_alpha)>>
          [] OTHER      -> <<Q3Neg(Q3Mul(two, v_beta)), Q3Sub(r3b, v_alpha)>>

\* ... and the duty cycles from the normalised times
SVMDuties(t1, t2, sector) ==
    LET t0  == Q3Mul(Q3Rat(Rat(1, 2)), Q3Sub(Q3Sub(Q3Rat(RInt(1)), t1), t2))
        all == Q3Add(Q3Add(t1, t2), t0)
    IN  CASE sector = 1 -> <<all, Q3Add(t2, t0), t0>>
          [] sector = 2 -> <<Q3Add(t1, t0), all, t0>>
          [] sector = 3 -> <<t0, all, Q3Add(t2, t0)>>
          [] sector = 4 -> <<t0, Q3Add(t1, t0), all>>
          [] sector = 5 -> <<Q3Add(t2, t0), t0, all>>
          [] OTHER      -> <<all, t0, Q3Add(t1, t0)>>

\* FOCController.space_vector_modulation; atan is what np.arctan2(v_beta,
\* v_alpha) returns in get_sector
SpaceVectorModulation(v_dc, v_alpha, v_beta, atan) ==
    LET sector == GetSector(atan)
        t      == SVMTimes(v_alpha, v_beta, sector)
        t1     == Q3Div(t[1], v_dc)
        t2     == Q3Div(t[2], v_dc)
    IN  [sector |-> sector, t1 |-> t1, t2 |-> t2, duty |-> SVMDuties(t1, t2, sector)]

\* cos(k*pi/6) and sin(k*pi/6), k in 0 .. 11
CosSixth(k) ==
    LET h == Rat(1, 2)
    IN  <<Q3(RInt(1), Zero), Q3(Zero, h), Q3(h, Zero), Q3(Zero, Zero),
          Q3(QNeg(h), Zero), Q3(Zero, QNeg(h)), Q3(RInt(-1), Zero), Q3(Zero, QNeg(h)),
          Q3(QNeg(h), Zero), Q3(Zero, Zero), Q3(h, Zero), Q3(Zero, h)>>[k + 1]

SinSixth(k) == CosSixth((k + 9) % 12)

\* np.arctan2 of a vector at the angle k*pi/6: k*pi/6 up to pi, (k - 12)*pi/6
\* beyond it, 0 for the zero vector
ArctanSixth(k, zero) ==
    IF zero THEN 0 ELSE IF k <= 6 THEN k * (Pi3 \div 2) ELSE (k - 12) * (Pi3 \div 2)

\* voltage vectors of up to MaxSVMSteps quarter-volts at the angles k*pi/6
MaxSVMSteps == 12

FOCSpaceVectorModulation ==
    \E m \in 0 .. MaxSVMSteps, k \in 0 .. 11 :
        \E mag \in {Rat(m, 4)} :
        \E r \in {SpaceVectorModulation(FOCDcBus, Q3Mul(Q3Rat(mag), CosSixth(k)),
                                        Q3Mul(Q3Rat(mag), SinSixth(k)),
                                        ArctanSixth(k, m = 0))} :
            /\ svm' = [op |-> "space_vector_modulation",
                       atan |-> ArctanSixth(k, m = 0), sector |-> r.sector,
                       magnitude |-> mag, k |-> k, t1 |-> r.t1, t2 |-> r.t2,
                       duty |-> r.duty]
            /\ UNCHANGED <<foc, piVars, plantVars, fwVars, identVars, drVars, hostVars>>

NextSVM == FOCSpaceVectorModulation

\* FOCController.update and the state it works on. Phase currents are numbers
\* a + b*sqrt(3), the rotor angle is k*pi/6; the inputs explored are those whose
\* d-q currents are rational, so that the PI controllers run on exact rationals.
\* The voltage command is base*sqrt(sq), the square root of the clamp kept
\* symbolic.

\* the max_voltage of the configuration record (V)
MaxVoltage == 4

\* update calls explored on one controller
MaxFOCUpdates == 2

\* load_parameters: the configuration record
FOCParams == [max_voltage |-> MaxVoltage] @@ MotorParams

\* __init__: load_parameters, initialize_controllers, reset
FOCNew(p) ==
    [id_controller |-> PINew([kp |-> RInt(2 * p.Ld), ki |-> RInt(p.Rs), limited |-> TRUE,
                              lo |-> RInt(-p.max_voltage), hi |-> RInt(p.max_voltage)]),
     iq_controller |-> PINew([kp |-> RInt(2 * p.Lq), ki |-> RInt(p.Rs), limited |-> TRUE,
                              lo |-> RInt(-p.max_voltage), hi |-> RInt(p.max_voltage)]),
     speed_controller |-> PINew([kp |-> Rat(1, 2), ki |-> RInt(5), limited |-> TRUE,
                                 lo |-> RInt(-p.max_current), hi |-> RInt(p.max_current)]),
     id_ref |-> Zero, iq_ref |-> Zero, speed_ref |-> Zero,
     vd |-> Plain(Zero), vq |-> Plain(Zero)]

\* FOCController.reset
FOCResetState(c) ==
    [c EXCEPT !.id_controller = PIResetState(@), !.iq_controller = PIResetState(@),
              !.speed_controller = PIResetState(@),
              !.id_ref = Zero, !.iq_ref = Zero, !.speed_ref = Zero,
              !.vd = Plain(Zero), !.vq = Plain(Zero)]

\* clarke_transform
ClarkeTransform(ia, ib, ic) ==
    <<ia, Q3Div(Q3Add(ia, Q3Mul(Q3Rat(RInt(2)), ib)), Sqrt3)>>

\* park_transform at theta_e = k*pi/6
ParkTransform(i_alpha, i_beta, k) ==
    <<Q3Add(Q3Mul(i_alpha, CosSixth(k)), Q3Mul(i_beta, SinSixth(k))),
      Q3Add(Q3Mul(Q3Neg(i_alpha), SinSixth(k)), Q3Mul(i_beta, CosSixth(k)))>>

VoltageScaleSqNone(limitSq, vd, vq) == RInt(1)

\* current_control: the square of the factor applied to (vd, vq),
\* (v_max / v_mag)^2 if v_mag > v_max, else 1
VoltageScaleSq(limitSq, vd, vq) ==
    LET magSq == QAdd(QMul(vd, vd), QMul(vq, vq))
    IN  IF QGt(magSq, limitSq) THEN QDiv(limitSq, magSq) ELSE RInt(1)

\* current_control: the controller after the call, self.vd and self.vq set
CurrentControl(p, c, id_ref, iq_ref, id_actual, iq_actual) ==
    LET d  == PIStep(c.id_controller, QSub(id_ref, id_actual), RInt(p.sample_time))
        q  == PIStep(c.iq_controller, QSub(iq_ref, iq_actual), RInt(p.sample_time))
        sq == VoltageScaleSq(VMaxSq(p), d.out, q.out)
    IN  [c EXCEPT !.id_controller = d.ctl, !.iq_controller = q.ctl,
                  !.vd = Surd(d.out, sq), !.vq = Surd(q.out, sq)]

\* speed_control: the speed controller after the call and iq_ref
SpeedControl(p, c, speed_ref, speed_actual) ==
    PIStep(c.speed_controller, QSub(speed_ref, speed_actual), RInt(p.sample_time))

\* update: the controller after the call and the measurements, references and
\* voltage command of the returned dict (its duty cycles are those
\* SpaceVectorModulation gives for the inverse Park transform of vd, vq; neither
\* of the two assigns an attribute)
FOCUpdateResult(p, c, ia, ib, ic, speed_ref, speed_actual, k) ==
    LET ab  == ClarkeTransform(ia, ib, ic)
        dq  == ParkTransform(ab[1], ab[2], k)
        s   == SpeedControl(p, c, speed_ref, speed_actual)
        c1  == [c EXCEPT !.speed_controller = s.ctl, !.iq_ref = s.out]
        c2  == CurrentControl(p, c1, c1.id_ref, c1.iq_ref, dq[1].a, dq[2].a)
    IN  [ctl |-> c2,
         ret |-> [id_actual |-> dq[1], iq_actual |-> dq[2],
                  id_ref |-> c2.id_ref, iq_ref |-> c2.iq_ref,
                  vd |-> c2.vd, vq |-> c2.vq]]

\* set_id_reference: np.clip(id_ref, -max_current, max_current)
SetIdReference(p, c, id_ref) ==
    [c EXCEPT !.id_ref = QClip(id_ref, RInt(-p.max_current), RInt(p.max_current))]

\* alpha-beta currents (A) the phase currents are made from
FOCCurrents == {<<0, 0>>, <<3, 2>>, <<-1, 0>>}

\* the phase currents of an alpha-beta current: the inverse Clarke transform
PhaseCurrents(ab) ==
    LET ia == Q3Rat(RInt(ab[1]))
        ib == Q3(Rat(-ab[1], 2), Rat(ab[2], 2))
    IN  <<ia, ib, Q3Neg(Q3Add(ia, ib))>>

\* speed_ref and speed_actual (rad/s)
FOCSpeeds == {<<0, 0>>, <<10, 0>>, <<0, 4>>}

\* theta_e in units of pi/6: 0 and pi/2
FOCAngles == {0, 3}

FOCIdRefs == {-6, 2}

NoFOCCall == [op |-> "none"]

FOCStart == [ctl |-> FOCNew(FOCParams), calls |-> 0, last |-> NoFOCCall]

FOCIdle == svm = NoSectorCall /\ foc = FOCStart

FOCUpdate ==
    /\ foc.calls < MaxFOCUpdates
    /\ \E ab \in FOCCurrents, w \in FOCSpeeds, k \in FOCAngles :
        \E i \in {PhaseCurrents(ab)} :
        \E r \in {FOCUpdateResult(FOCParams, foc.ctl, i[1], i[2], i[3],
                                   RInt(w[1]), RInt(w[2]), k)} :
            /\ r.ret.id_actual.b = Zero /\ r.ret.iq_actual.b = Zero
            /\ foc' = [ctl |-> r.ctl, calls |-> foc.calls + 1,
                       last |-> [op |-> "update", before |-> foc.ctl, ret |-> r.ret,
                                 ia |-> i[1], ib |-> i[2], ic |-> i[3],
                                 speed_ref |-> w[1], speed_actual |-> w[2],
                                 theta_e |-> k]]
            /\ UNCHANGED <<svm, piVars, plantVars, fwVars, identVars, drVars, hostVars>>

FOCSetIdReference ==
    \E x \in FOCIdRefs :
        /\ foc' = [foc EXCEPT !.ctl = SetIdReference(FOCParams, foc.ctl, RInt(x)),
                              !.last = [op |-> "set_id_reference", id_ref |-> x]]
        /\ UNCHANGED <<svm, piVars, plantVars, fwVars, identVars, drVars, hostVars>>

FOCReset ==
    /\ foc' = [ctl |-> FOCResetState(foc.ctl), calls |-> 0, last |-> [op |-> "reset"]]
    /\ UNCHANGED <<svm, piVars, plantVars, fwVars, identVars, drVars, hostVars>>

NextFOCUpdate == FOCUpdate \/ FOCSetIdReference \/ FOCReset

----------------------------------------------------------------------------
(* FluxWeakeningController (flux_weakening.py).                            *)

\* consecutive over-limit voltage-policy calls are counted up to this many
MaxOverRun == 3

\* 20^k bounds the denominator of id_fw: the decay id_fw *= 0.95 is explored
\* while the denominator stays within it
MaxFWDenominator == 8000

\* the non-negative integer whose square is n (n a perfect square)
ISqrt(n) == CHOOSE k \in 0 .. n : k * k = n

\* np.sqrt of a rational that is the square of a rational
QSqrt(q) == CHOOSE r \in { Rat(ISqrt(x.n), ISqrt(x.d)) : x \in {q} } : TRUE

\* the record the flux-weakening controller loads: dc_bus_voltage is
\* 100*sqrt(3) V, which makes the base speed 100 rad/s, and Ld # Lq
FWParams ==
    [MotorParams EXCEPT !.dc_bus_voltage = Surd(100, RInt(3)), !.Ld = 2]

\* FluxWeakeningController.calculate_base_speed
CalculateBaseSpeed(p) ==
    LET v_max        == QSqrt(VMaxSq(p))
        base_speed_e == QDiv(v_max, RInt(p.flux_linkage))
    IN  QDiv(base_speed_e, Rat(p.poles, 2))

\* load_parameters: self.base_speed, fw_kp, fw_ki, voltage_margin
FWBaseSpeed == CalculateBaseSpeed(FWParams)

FWKp == Rat(1, 2)

FWKi == RInt(10)

VoltageMargin == Rat(95, 100)

\* 0.95, the decay of id_fw, and 0.01, the threshold below which it is zeroed
\* a decay that leaves id_fw where it was
FWDecayNone == Rat(1, 1)

FWDecay == Rat(95, 100)

FWZeroThreshold == Rat(1, 100)

\* initialize_controller: PIController(fw_kp, fw_ki, [-max_current, 0])
FWNewController(p) ==
    PINew([kp |-> FWKp, ki |-> FWKi, limited |-> TRUE,
           lo |-> RInt(-p.max_current), hi |-> Zero])

\* FluxWeakeningController.reset
FWResetState(f) ==
    [ctl |-> PIResetState(f.ctl), id_fw |-> Zero, in_flux_weakening |-> FALSE]

\* the result of a method: the controller after the call and the value returned
FWResult(f, ret) == [fw |-> f, ret |-> ret]

\* FluxWeakeningController.voltage_based_flux_weakening
\* v_mag - v_limit of voltage_based_flux_weakening
VoltageError(p, vd, vq) ==
    LET v_mag   == QSqrt(RInt(vd * vd + vq * vq))
        v_limit == QMul(QSqrt(VMaxSq(p)), VoltageMargin)
    IN  QSub(v_mag, v_limit)

VoltageBasedFW(p, f, wr, vd, vq) ==
    LET v_error == VoltageError(p, vd, vq)
    IN  IF QGt(v_error, Zero)
        THEN LET r == PIStep(f.ctl, v_error, RInt(p.sample_time))
             IN  FWResult([ctl |-> r.ctl, id_fw |-> r.out,
                           in_flux_weakening |-> TRUE], r.out)
        ELSE LET decayed == QMul(f.id_fw, FWDecay)
             IN  IF QLt(QAbs(decayed), FWZeroThreshold)
                 THEN FWResult([ctl |-> PIResetState(f.ctl), id_fw |-> Zero,
                                in_flux_weakening |-> FALSE], Zero)
                 ELSE FWResult([f EXCEPT !.id_fw = decayed,
                                         !.in_flux_weakening = FALSE], decayed)

SpeedBasedFWAtBase(p, f, wr, iq_ref) ==
    IF QGe(wr, FWBaseSpeed)
    THEN LET id_fw == QClip(QDiv(QNeg(QAdd(RInt(p.flux_linkage),
                                           QMul(RInt(p.Lq), iq_ref))),
                                 RInt(p.Ld)),
                            RInt(-p.max_current), Zero)
         IN  FWResult([f EXCEPT !.id_fw = id_fw, !.in_flux_weakening = TRUE], id_fw)
    ELSE FWResult([ctl |-> PIResetState(f.ctl), id_fw |-> Zero,
                   in_flux_weakening |-> FALSE], Zero)

\* FluxWeakeningController.speed_based_flux_weakening
SpeedBasedFW(p, f, wr, iq_ref) ==
    IF QGt(wr, FWBaseSpeed)
    THEN LET id_fw == QClip(QDiv(QNeg(QAdd(RInt(p.flux_linkage),
                                           QMul(RInt(p.Lq), iq_ref))),
                                 RInt(p.Ld)),
                            RInt(-p.max_current), Zero)
         IN  FWResult([f EXCEPT !.id_fw = id_fw, !.in_flux_weakening = TRUE], id_fw)
    ELSE FWResult([ctl |-> PIResetState(f.ctl), id_fw |-> Zero,
                   in_flux_weakening |-> FALSE], Zero)

\* a lookup that normalises the magnitude of the speed
LookupTableFWByMagnitude(p, f, wr, iq_ref) ==
    LET speed_ratio == QDiv(QAbs(wr), FWBaseSpeed)
    IN  IF QLe(speed_ratio, RInt(1))
        THEN FWResult(f, Zero)
        ELSE LET over_speed_factor == QSub(speed_ratio, RInt(1))
                 id1 == QDiv(QMul(QNeg(over_speed_factor), RInt(p.flux_linkage)),
                             RInt(p.Ld))
                 id2 == QSub(id1, QDiv(QMul(RInt(p.Lq), iq_ref), RInt(p.Ld)))
             IN  FWResult(f, QClip(id2, RInt(-p.max_current), Zero))

\* FluxWeakeningController.lookup_table_flux_weakening
LookupTableFW(p, f, wr, iq_ref) ==
    LET speed_ratio == QDiv(wr, FWBaseSpeed)
    IN  IF QLe(speed_ratio, RInt(1))
        THEN FWResult(f, Zero)
        ELSE LET over_speed_factor == QSub(speed_ratio, RInt(1))
                 id1 == QDiv(QMul(QNeg(over_speed_factor), RInt(p.flux_linkage)),
                             RInt(p.Ld))
                 id2 == QSub(id1, QDiv(QMul(RInt(p.Lq), iq_ref), RInt(p.Ld)))
             IN  FWResult(f, QClip(id2, RInt(-p.max_current), Zero))

\* the policy selectors update accepts
FWMethods == {"voltage", "speed", "lookup"}

\* FluxWeakeningController.update: any other selector falls to the final else
\* and returns 0.0; no branch raises
FWUpdateResult(p, f, wr, vd, vq, iq_ref, method) ==
    IF method = "voltage" THEN VoltageBasedFW(p, f, wr, vd, vq)
    ELSE IF method = "speed" THEN SpeedBasedFW(p, f, wr, iq_ref)
    ELSE IF method = "lookup" THEN LookupTableFW(p, f, wr, iq_ref)
    ELSE FWResult(f, Zero)

\* arguments of update: speeds around the base speed of 100 rad/s, q-axis
\* references, voltage vectors of magnitude 0, 95 and 100 V, selectors
FWSpeeds == { RInt(-150), RInt(50), RInt(100), RInt(150) }

FWIqRefs == { RInt(-3), RInt(5), RInt(9) }

FWVoltages == { <<0, 0>>, <<57, 76>>, <<60, 80>> }

FWSelectors == FWMethods \cup {"mtpa"}

FWNew == [ctl |-> FWNewController(FWParams), id_fw |-> Zero,
          in_flux_weakening |-> FALSE]

NoFWCall ==
    [op |-> "none", method |-> "", wr |-> Zero, iq_ref |-> Zero, vd |-> 0, vq |-> 0,
     ret |-> Zero, raised |-> FALSE, before |-> FWNew, run |-> 0]

\* the number of consecutive voltage-policy calls, ending with the call just
\* made, whose voltage magnitude was above the limit (counted up to MaxOverRun)
OverLimitRun(last, method, vd, vq) ==
    IF method = "voltage" /\ QGt(VoltageError(FWParams, vd, vq), Zero)
    THEN IF last.run < MaxOverRun THEN last.run + 1 ELSE MaxOverRun
    ELSE 0

\* a number base * sqrt(sq) with a rational base: what np.sqrt and the scaling
\* by max_current / i_mag produce
OptValue(base, sq) == [base |-> base, sq |-> sq]

OptPlain(x) == OptValue(x, RInt(1))

OptSq(v) == QMul(QMul(v.base, v.base), v.sq)

OptSign(v) == IF v.sq.n = 0 THEN 0 ELSE Sign(v.base.n)

OptScale(v, scaleSq) == OptValue(v.base, QMul(v.sq, scaleSq))

\* a returned pair; nan names the components that are NaN (np.sqrt of a
\* negative number, 0.0 / 0.0 and inf * 0.0 on numpy floats give nan with a
\* RuntimeWarning, no exception)
OptPair(nan, id_ref, iq_ref) == [nan |-> nan, id_ref |-> id_ref, iq_ref |-> iq_ref]

\* the surface-mounted record (Ld = Lq), the record with Ld > Lq and the
\* record of an interior machine with Ld < Lq
OptMachines ==
    { [FWParams EXCEPT !.Ld = 1], FWParams, [FWParams EXCEPT !.Ld = 1, !.Lq = 2] }

\* get_optimal_current_references before the current limit is applied
OptimalUnclamped(p, f, wr, torque_ref) ==
    LET kt  == QMul(Rat(3, 2), RInt(p.poles))
        iq0 == QDiv(torque_ref, QMul(kt, RInt(p.flux_linkage)))
        dL  == p.Ld - p.Lq
    IN  IF dL = 0
        THEN IF QLe(wr, FWBaseSpeed)
             THEN [fw |-> f, pair |-> OptPair({}, OptPlain(Zero), OptPlain(iq0))]
             ELSE LET r   == SpeedBasedFW(p, f, wr, iq0)
                      den == QMul(kt, QAdd(RInt(p.flux_linkage),
                                           QMul(RInt(p.Ld), r.ret)))
                  IN  IF den.n = 0
                      THEN [fw |-> r.fw,
                            pair |-> OptPair({"iq_ref"},
                                             OptPlain(IF torque_ref.n = 0 THEN r.ret
                                                                          ELSE Zero),
                                             OptPlain(Zero))]
                      ELSE [fw |-> r.fw,
                            pair |-> OptPair({}, OptPlain(r.ret),
                                             OptPlain(QDiv(torque_ref, den)))]
        ELSE IF QLe(wr, FWBaseSpeed)
             THEN LET arg == QDiv(QAbs(torque_ref), QMul(kt, RInt(dL)))
                      a   == QDiv(RInt(p.flux_linkage), RInt(2 * dL))
                  IN  IF QLt(arg, Zero)
                      THEN [fw |-> f,
                            pair |-> OptPair({"id_ref", "iq_ref"}, OptPlain(Zero),
                                             OptPlain(Zero))]
                      ELSE [fw |-> f,
                            pair |-> OptPair({},
                                       OptPlain(QSub(QNeg(a),
                                                     QSqrt(QAdd(QMul(a, a), arg)))),
                                       OptValue(RInt(1), arg))]
             ELSE LET r == SpeedBasedFW(p, f, wr, iq0)
                  IN  [fw |-> r.fw, pair |-> OptPair({}, OptPlain(r.ret), OptPlain(iq0))]

\* the square of scale = max_current / i_mag where i_mag > max_current, else 1;
\* a NaN magnitude compares False
OptScaleSq(p, pair) ==
    LET magSq   == QAdd(OptSq(pair.id_ref), OptSq(pair.iq_ref))
        limitSq == RInt(p.max_current * p.max_current)
    IN  IF pair.nan = {} /\ QGt(magSq, limitSq) THEN QDiv(limitSq, magSq) ELSE RInt(1)

\* FluxWeakeningController.get_optimal_current_references
GetOptimalCurrentReferences(p, f, wr, torque_ref) ==
    LET u  == OptimalUnclamped(p, f, wr, torque_ref)
        sq == OptScaleSq(p, u.pair)
    IN  [fw |-> u.fw, unclamped |-> u.pair,
         ret |-> OptPair(u.pair.nan, OptScale(u.pair.id_ref, sq),
                         OptScale(u.pair.iq_ref, sq))]

\* arguments: speeds around the base speed, torque requests for which the
\* square roots of the interior branch are rational
OptSpeeds == FWSpeeds \cup { Zero }

OptTorques == { RInt(-36), RInt(-18), RInt(-6), Zero, RInt(6), RInt(18), RInt(36) }

NoOptCall(p) ==
    [p |-> p, op |-> "none", wr |-> Zero, torque_ref |-> Zero,
     unclamped |-> OptPair({}, OptPlain(Zero), OptPlain(Zero)),
     ret |-> OptPair({}, OptPlain(Zero), OptPlain(Zero))]

FWIdle == fw = FWNew /\ fwLast = NoFWCall /\ optCall = NoOptCall(FWParams)

FWGetOptimalCurrentReferences ==
    \E wr \in OptSpeeds, torque_ref \in OptTorques :
        \E r \in {GetOptimalCurrentReferences(optCall.p, fw, wr, torque_ref)} :
            /\ fw' = r.fw
            /\ optCall' = [optCall EXCEPT !.op = "get_optimal_current_references",
                                          !.wr = wr, !.torque_ref = torque_ref,
                                          !.unclamped = r.unclamped, !.ret = r.ret]
            /\ UNCHANGED <<fwLast, piVars, plantVars, focVars, identVars, drVars,
                           hostVars>>

\* FluxWeakeningController.update with its arguments drawn from the given sets
FWUpdateWith(speeds, iq_refs, voltages, selectors, maxDenominator) ==
    \E wr \in speeds, iq_ref \in iq_refs, v \in voltages, method \in selectors :
        \E r \in {FWUpdateResult(FWParams, fw, wr, v[1], v[2], iq_ref, method)} :
            /\ r.fw.id_fw.d <= maxDenominator
            /\ fw' = r.fw
            /\ fwLast' = [op |-> "update", method |-> method, wr |-> wr,
                          iq_ref |-> iq_ref, vd |-> v[1], vq |-> v[2],
                          ret |-> r.ret, raised |-> FALSE, before |-> fw,
                          run |-> OverLimitRun(fwLast, method, v[1], v[2])]
            /\ UNCHANGED <<optCall, piVars, plantVars, focVars, identVars, drVars,
                           hostVars>>

FWReset ==
    /\ fw' = FWResetState(fw)
    /\ fwLast' = [NoFWCall EXCEPT !.op = "reset", !.before = fw]
    /\ UNCHANGED <<optCall, piVars, plantVars, focVars, identVars, drVars, hostVars>>

FWUpdate ==
    FWUpdateWith(FWSpeeds, FWIqRefs, FWVoltages, FWSelectors, MaxFWDenominator)

NextFW == FWUpdate \/ FWReset

\* a run of consecutive voltage-policy calls whose voltage magnitude is not
\* above the limit, from a controller holding a weakening current of 0 or of
\* 0.0100 .. 0.0115 A in steps of 0.0001 A
MaxDecayStart == 15

DecayStarts == {Zero} \cup { Rat(-(100 + n), 10000) : n \in 0 .. MaxDecayStart }

\* every start reaches 0 within four calls
DecayDenominator == 10000 * 20 ^ 4

DecayVoltages == { v \in FWVoltages : QLe(VoltageError(FWParams, v[1], v[2]), Zero) }

FWDecayUpdate ==
    FWUpdateWith({RInt(150)}, {RInt(5)}, DecayVoltages, {"voltage"}, DecayDenominator)

NextFWDecay == FWDecayUpdate

NextOptimal == FWGetOptimalCurrentReferences \/ FWReset

----------------------------------------------------------------------------
(* Exact arithmetic on integers of any size, for the recursive least       *)
(* squares estimators: with P = 1000 * I and lambda = 0.99 one update      *)
(* already produces numerators beyond 32 bits.  A natural number is the    *)
(* sequence of its base-LimbBase digits, least significant first, without  *)
(* leading zeros (0 is the empty sequence).  An operator evaluates each    *)
(* argument once, by binding it in a one-element set.                      *)

LimbBase == 10 ^ 4

LHead(a) == IF a = <<>> THEN 0 ELSE Head(a)

LTail(a) == IF a = <<>> THEN <<>> ELSE Tail(a)

RECURSIVE LFromNat(_)
LFromNat(n) == IF n = 0 THEN <<>> ELSE <<n % LimbBase>> \o LFromNat(n \div LimbBase)

RECURSIVE LTrim(_)
LTrim(a) ==
    CHOOSE r \in { IF x = <<>> THEN x
                   ELSE IF x[Len(x)] = 0 THEN LTrim(SubSeq(x, 1, Len(x) - 1))
                   ELSE x : x \in {a} } : TRUE

\* a + b + c, c a carry
RECURSIVE LAdd(_, _, _)
LAdd(a, b, c) ==
    CHOOSE r \in
        { LET s == LHead(x) + LHead(y) + c
          IN  IF x = <<>> /\ y = <<>> THEN (IF s = 0 THEN <<>> ELSE <<s>>)
              ELSE <<s % LimbBase>> \o LAdd(LTail(x), LTail(y), s \div LimbBase)
          : x \in {a}, y \in {b} } : TRUE

\* a - b - c for a >= b + c, c a borrow; leading zeros are left in place
RECURSIVE LSubRaw(_, _, _)
LSubRaw(a, b, c) ==
    CHOOSE r \in
        { LET s == LHead(x) - LHead(y) - c
          IN  IF x = <<>> THEN <<>>
              ELSE IF s < 0 THEN <<s + LimbBase>> \o LSubRaw(LTail(x), LTail(y), 1)
              ELSE <<s>> \o LSubRaw(LTail(x), LTail(y), 0)
          : x \in {a}, y \in {b} } : TRUE

LSub(a, b) == LTrim(LSubRaw(a, b, 0))

RECURSIVE LCmpFrom(_, _, _)
LCmpFrom(a, b, i) ==
    IF i = 0 THEN 0
    ELSE IF a[i] < b[i] THEN -1
    ELSE IF a[i] > b[i] THEN 1
    ELSE LCmpFrom(a, b, i - 1)

\* -1, 0 or 1 as a < b, a = b or a > b
LCmp(a, b) ==
    CHOOSE r \in
        { IF Len(x) < Len(y) THEN -1
          ELSE IF Len(x) > Len(y) THEN 1
          ELSE LCmpFrom(x, y, Len(x)) : x \in {a}, y \in {b} } : TRUE

\* a * d + c for one digit d
RECURSIVE LMulDigit(_, _, _)
LMulDigit(a, d, c) ==
    CHOOSE r \in
        { LET s == LHead(x) * d + c
          IN  IF x = <<>> THEN (IF c = 0 THEN <<>> ELSE <<c>>)
              ELSE <<s % LimbBase>> \o LMulDigit(LTail(x), d, s \div LimbBase)
          : x \in {a} } : TRUE

RECURSIVE LMul(_, _)
LMul(a, b) ==
    CHOOSE r \in
        { IF x = <<>> \/ y = <<>> THEN <<>>
          ELSE CHOOSE q \in
                   { LAdd(first, IF rest = <<>> THEN <<>> ELSE <<0>> \o rest, 0)
                     : first \in {LTrim(LMulDigit(x, Head(y), 0))},
                       rest \in {LMul(x, Tail(y))} } : TRUE
          : x \in {a}, y \in {b} } : TRUE

\* signed integers
ZInt(k) == [neg |-> k < 0, mag |-> LFromNat(Abs(k))]

ZNeg(a) ==
    CHOOSE r \in { IF x.mag = <<>> THEN x ELSE [x EXCEPT !.neg = ~x.neg]
                   : x \in {a} } : TRUE

ZAdd(a, b) ==
    CHOOSE r \in
        { IF x.neg = y.neg THEN [neg |-> x.neg, mag |-> LAdd(x.mag, y.mag, 0)]
          ELSE IF LCmp(x.mag, y.mag) = 0 THEN [neg |-> FALSE, mag |-> <<>>]
          ELSE IF LCmp(x.mag, y.mag) > 0 THEN [neg |-> x.neg, mag |-> LSub(x.mag, y.mag)]
          ELSE [neg |-> y.neg, mag |-> LSub(y.mag, x.mag)]
          : x \in {a}, y \in {b} } : TRUE

ZMul(a, b) ==
    CHOOSE r \in
        { [neg |-> x.mag # <<>> /\ y.mag # <<>> /\ x.neg # y.neg,
           mag |-> LMul(x.mag, y.mag)]
          : x \in {a}, y \in {b} } : TRUE

ZSign(a) ==
    CHOOSE r \in { IF x.mag = <<>> THEN 0 ELSE IF x.neg THEN -1 ELSE 1
                   : x \in {a} } : TRUE

\* rationals n/d over them, d > 0, not reduced: equality is XEq, not =
XFrac(n, d) ==
    CHOOSE r \in { IF x.mag = <<>> THEN [n |-> ZInt(0), d |-> ZInt(1)]
                   ELSE [n |-> x, d |-> y]
                   : x \in {n}, y \in {d} } : TRUE

XRat(n, d) == XFrac(ZInt(n), ZInt(d))

XInt(k) == XRat(k, 1)

XNeg(a) == CHOOSE r \in { [x EXCEPT !.n = ZNeg(x.n)] : x \in {a} } : TRUE

XAdd(a, b) ==
    CHOOSE r \in
        { IF x.d = y.d THEN XFrac(ZAdd(x.n, y.n), x.d)
          ELSE XFrac(ZAdd(ZMul(x.n, y.d), ZMul(y.n, x.d)), ZMul(x.d, y.d))
          : x \in {a}, y \in {b} } : TRUE

XSub(a, b) == XAdd(a, XNeg(b))

XMul(a, b) ==
    CHOOSE r \in { XFrac(ZMul(x.n, y.n), ZMul(x.d, y.d)) : x \in {a}, y \in {b} } : TRUE

\* a / b for b # 0
XDiv(a, b) ==
    CHOOSE r \in
        { XFrac([neg |-> x.n.neg # y.n.neg, mag |-> LMul(x.n.mag, y.d.mag)],
                [neg |-> FALSE, mag |-> LMul(x.d.mag, y.n.mag)])
          : x \in {a}, y \in {b} } : TRUE

XAbs(a) == CHOOSE r \in { [x EXCEPT !.n.neg = FALSE] : x \in {a} } : TRUE

XSign(a) == ZSign(a.n)

XEq(a, b) == XSign(XSub(a, b)) = 0

XLt(a, b) == XSign(XSub(a, b)) < 0

XGt(a, b) == XSign(XSub(a, b)) > 0

----------------------------------------------------------------------------
(* MotorParameterIdentification (self_learning.py): the RLS estimators.    *)

\* a call that runs rls_update is explored while the numbers it reads have
\* denominators of at most this many digits to base LimbBase
MaxRLSLimbs == 1

RECURSIVE XSum(_)
XSum(s) ==
    CHOOSE r \in { IF x = <<>> THEN XInt(0) ELSE XAdd(Head(x), XSum(Tail(x)))
                   : x \in {s} } : TRUE

\* phi.T @ theta and P @ phi, phi.T @ P
Dot(u, v) ==
    CHOOSE r \in { XSum([i \in 1 .. Len(x) |-> XMul(x[i], y[i])])
                   : x \in {u}, y \in {v} } : TRUE

MatVec(P, v) ==
    CHOOSE r \in { [i \in 1 .. Len(y) |-> Dot(Q[i], y)] : Q \in {P}, y \in {v} } : TRUE

VecMat(v, P) ==
    CHOOSE r \in
        { [j \in 1 .. Len(y) |-> XSum([i \in 1 .. Len(y) |-> XMul(y[i], Q[i][j])])]
          : Q \in {P}, y \in {v} } : TRUE

\* load_parameters: forgetting_factor = 0.99, min_speed_for_identification = 10
ForgettingFactor == XRat(99, 100)

MinSpeedForIdentification == XInt(10)

\* 1e-10, the least denominator magnitude for which the gain is computed
RLSEpsilon == XDiv(XInt(1), XMul(XInt(10 ^ 5), XInt(10 ^ 5)))

\* np.eye(n) * 1000
InitialCovariance(n) ==
    [i \in 1 .. n |-> [j \in 1 .. n |-> IF i = j THEN XInt(1000) ELSE XInt(0)]]

\* initialize_estimators: one estimator dictionary
NewEstimator(theta) ==
    [theta |-> theta, P |-> InitialCovariance(Len(theta)), lambda |-> ForgettingFactor]

\* rls_update: denominator = lambda_factor + phi.T @ P @ phi
RLSDenominator(estimator, phi) ==
    XAdd(estimator.lambda, Dot(phi, MatVec(estimator.P, phi)))

RLSGainUndivided(P, phi, denominator) == MatVec(P, phi)

\* rls_update: the gain vector K
RLSGain(P, phi, denominator) ==
    CHOOSE r \in
        { IF XGt(XAbs(den), RLSEpsilon)
          THEN [i \in 1 .. Len(Pphi) |-> XDiv(Pphi[i], den)]
          ELSE [i \in 1 .. Len(Pphi) |-> XInt(0)]
          : den \in {denominator}, Pphi \in {MatVec(P, phi)} } : TRUE

\* rls_update: theta_new, P_new and what is returned, from K and the error
RLSFinish(e, phi, y, denominator, gain, residual) ==
    CHOOSE r \in
        { [estimator |->
               [e EXCEPT
                  !.theta = [i \in 1 .. Len(K) |-> XAdd(e.theta[i], XMul(K[i], error))],
                  !.P = [i \in 1 .. Len(K) |-> [j \in 1 .. Len(K) |->
                            XDiv(XSub(e.P[i][j], XMul(K[i], phiP[j])), e.lambda)]]],
           error |-> error, denominator |-> denominator,
           theta |-> e.theta, P |-> e.P, phi |-> phi, y |-> y]
          : K \in {gain}, error \in {residual}, phiP \in {VecMat(phi, e.P)} } : TRUE

\* rls_update: the estimator after the call, the error returned, and for the
\* record the denominator formed and the arguments
RLSUpdate(estimator, phi, y) ==
    CHOOSE r \in
        UNION { { RLSFinish(e, f, v, den, RLSGain(e.P, f, den), XSub(v, Dot(f, e.theta)))
                  : den \in {RLSDenominator(e, f)} }
                : e \in {estimator}, f \in {phi}, v \in {y} } : TRUE

\* initialize_estimators and reset
IdentNew(p) ==
    [Rs_estimator   |-> NewEstimator(<<XInt(p.Rs)>>),
     L_estimator    |-> NewEstimator(<<XInt(p.Ld), XInt(p.Lq)>>),
     flux_estimator |-> NewEstimator(<<XInt(p.flux_linkage)>>),
     mech_estimator |-> NewEstimator(<<XInt(p.J), XInt(p.B)>>),
     voltage_buffer |-> <<>>, current_buffer |-> <<>>,
     speed_buffer |-> <<>>, torque_buffer |-> <<>>,
     Rs_identified |-> XInt(p.Rs), Ld_identified |-> XInt(p.Ld),
     Lq_identified |-> XInt(p.Lq), flux_identified |-> XInt(p.flux_linkage),
     J_identified |-> XInt(p.J), B_identified |-> XInt(p.B),
     identification_count |-> 0, identification_complete |-> FALSE]

\* what one rls_update invocation saw and produced
RLSCall(r) ==
    [theta |-> r.theta, P |-> r.P, phi |-> r.phi, y |-> r.y,
     theta_new |-> r.estimator.theta, error |-> r.error,
     denominator |-> r.denominator]

\* the result of an identify_* method: the object after the call and the
\* rls_update invocations it made, in order
IdentResult(m, calls) == [ident |-> m, calls |-> calls]

CurrentThreshold == XRat(1, 10)

DerivativeThreshold == XRat(1, 10 ^ 6)

\* identify_resistance: the update both axes share
ResistanceUpdate(m, phi, y) ==
    CHOOSE x \in
        { IdentResult([m EXCEPT !.Rs_estimator = r.estimator,
                                !.Rs_identified = r.estimator.theta[1]],
                      <<RLSCall(r)>>)
          : r \in {RLSUpdate(m.Rs_estimator, <<phi>>, y)} } : TRUE

\* a resistance identification that is also active at the threshold speed
IdentifyResistanceAtThreshold(m, vd, id, vq, iq, wr) ==
    IF ~XGt(XAbs(wr), MinSpeedForIdentification)
    THEN IF XGt(XAbs(id), CurrentThreshold) THEN ResistanceUpdate(m, id, vd)
         ELSE IF XGt(XAbs(iq), CurrentThreshold) THEN ResistanceUpdate(m, iq, vq)
         ELSE IdentResult(m, <<>>)
    ELSE IdentResult(m, <<>>)

\* identify_resistance
IdentifyResistanceResult(m, vd, id, vq, iq, wr) ==
    IF XLt(XAbs(wr), MinSpeedForIdentification)
    THEN IF XGt(XAbs(id), CurrentThreshold) THEN ResistanceUpdate(m, id, vd)
         ELSE IF XGt(XAbs(iq), CurrentThreshold) THEN ResistanceUpdate(m, iq, vq)
         ELSE IdentResult(m, <<>>)
    ELSE IdentResult(m, <<>>)

\* identify_inductance: the Ld half
IdentifyLd(m, vd, id, vq, iq, wr, did_dt, diq_dt) ==
    IF XGt(XAbs(diq_dt), DerivativeThreshold)
    THEN CHOOSE x \in
             { IdentResult([m EXCEPT !.L_estimator = r.estimator,
                                     !.Ld_identified = r.estimator.theta[1]],
                           <<RLSCall(r)>>)
               : r \in {RLSUpdate([m.L_estimator EXCEPT !.theta[1] = m.Ld_identified],
                                  <<XMul(wr, id), diq_dt>>,
                                  XSub(XSub(vq, XMul(m.Rs_identified, iq)),
                                       XMul(wr, m.flux_identified)))} } : TRUE
    ELSE IdentResult(m, <<>>)

\* identify_inductance: the Lq half, on a temporary estimator that is dropped
IdentifyLq(m, vd, id, vq, iq, wr, did_dt, diq_dt) ==
    IF XGt(XAbs(did_dt), DerivativeThreshold)
    THEN CHOOSE x \in
             { IdentResult([m EXCEPT !.Lq_identified = r.estimator.theta[1]],
                           <<RLSCall(r)>>)
               : r \in {RLSUpdate([theta |-> <<m.Lq_identified, m.Ld_identified>>,
                                   P |-> m.L_estimator.P,
                                   lambda |-> m.L_estimator.lambda],
                                  <<XMul(XNeg(wr), iq), did_dt>>,
                                  XSub(vd, XMul(m.Rs_identified, id)))} } : TRUE
    ELSE IdentResult(m, <<>>)

\* identify_inductance
IdentifyInductanceResult(m, vd, id, vq, iq, wr, did_dt, diq_dt) ==
    IF XGt(XAbs(wr), MinSpeedForIdentification)
    THEN CHOOSE x \in
             UNION { { IdentResult(b.ident, a.calls \o b.calls)
                       : b \in {IdentifyLq(a.ident, vd, id, vq, iq, wr, did_dt, diq_dt)} }
                     : a \in {IdentifyLd(m, vd, id, vq, iq, wr, did_dt, diq_dt)} } : TRUE
    ELSE IdentResult(m, <<>>)

\* identify_flux_linkage
IdentifyFluxLinkageResult(m, vd, id, vq, iq, wr) ==
    IF XGt(XAbs(wr), MinSpeedForIdentification) /\ XGt(XAbs(iq), CurrentThreshold)
    THEN CHOOSE x \in
             { IdentResult([m EXCEPT !.flux_estimator = r.estimator,
                                     !.flux_identified = r.estimator.theta[1]],
                           <<RLSCall(r)>>)
               : r \in {RLSUpdate(m.flux_estimator, <<wr>>,
                                  XSub(XSub(vq, XMul(m.Rs_identified, iq)),
                                       XMul(XMul(wr, m.Ld_identified), id)))} } : TRUE
    ELSE IdentResult(m, <<>>)

\* identify_mechanical_parameters
IdentifyMechanicalResult(m, Te, wr, dwr_dt) ==
    IF XGt(XAbs(dwr_dt), DerivativeThreshold)
    THEN CHOOSE x \in
             { IdentResult([m EXCEPT !.mech_estimator = r.estimator,
                                     !.J_identified = r.estimator.theta[1],
                                     !.B_identified = r.estimator.theta[2]],
                           <<RLSCall(r)>>)
               : r \in {RLSUpdate(m.mech_estimator, <<dwr_dt, wr>>, Te)} } : TRUE
    ELSE IdentResult(m, <<>>)

\* the denominators of a parameter vector and a covariance are within
\* MaxRLSLimbs digits
RLSWithin(theta, P) ==
    \A i \in 1 .. Len(theta) :
        /\ Len(theta[i].d.mag) <= MaxRLSLimbs
        /\ \A j \in 1 .. Len(theta) : Len(P[i][j].d.mag) <= MaxRLSLimbs

\* measurements handed to the identify_* methods: <<vd, id, vq, iq, wr>> at
\* standstill and below the speed threshold, at the threshold, and above it
ElectricalSamples ==
    { <<2, 2, 0, 0, 0>>, <<0, 0, 3, 2, 5>>, <<1, 1, 4, 2, 5>>, <<3, 1, 0, 0, 10>>,
      <<0, 1, 23, 1, 11>> }

\* <<did_dt, diq_dt>>
CurrentDerivatives == { <<0, 0>>, <<1, 0>>, <<-2, 1>> }

\* <<Te, wr, dwr_dt>>
MechanicalSamples == { <<1, 0, 1>>, <<5, -11, 2>>, <<1, 1, 0>> }

NoRLSCall == [op |-> "none", calls |-> <<>>]

\* load_parameters: self.data_buffer_size
DataBufferSize == 1000

\* a deque(maxlen=data_buffer_size)
IdentAppend(buf, x) ==
    IF Len(buf) >= DataBufferSize THEN Tail(buf) \o <<x>> ELSE Append(buf, x)

\* update: the number of samples above which identification_complete is set
CompleteThreshold == 100

\* ... its last lines: the count, and the flag set above the threshold
IdentCountAtThreshold(m) ==
    [m EXCEPT !.identification_count = m.identification_count + 1,
              !.identification_complete =
                  IF m.identification_count + 1 >= CompleteThreshold
                  THEN TRUE ELSE m.identification_complete]

IdentCount(m) ==
    [m EXCEPT !.identification_count = m.identification_count + 1,
              !.identification_complete =
                  IF m.identification_count + 1 > CompleteThreshold
                  THEN TRUE ELSE m.identification_complete]

\* the finite difference against the sample before the last one in a buffer
FiniteDifference(p, now, buf, field) ==
    IF Len(buf) >= 2
    THEN XDiv(XInt(now - buf[Len(buf) - 1][field]), XInt(p.sample_time))
    ELSE XInt(0)

\* MotorParameterIdentification.update; s is <<vd, id, vq, iq, wr>>, Te is <<>>
\* for None and <<torque>> otherwise
IdentUpdateResult(p, m, enabled, s, Te) ==
    IF ~enabled THEN IdentResult(m, <<>>)
    ELSE
    LET m1 == [m EXCEPT !.voltage_buffer = IdentAppend(@, <<s[1], s[3]>>),
                        !.current_buffer = IdentAppend(@, <<s[2], s[4]>>),
                        !.speed_buffer = IdentAppend(@, <<s[5]>>),
                        !.torque_buffer = IF Te = <<>> THEN @ ELSE IdentAppend(@, Te[1])]
        did_dt == FiniteDifference(p, s[2], m1.current_buffer, 1)
        diq_dt == FiniteDifference(p, s[4], m1.current_buffer, 2)
        dwr_dt == FiniteDifference(p, s[5], m1.speed_buffer, 1)
        vd == XInt(s[1])
        id == XInt(s[2])
        vq == XInt(s[3])
        iq == XInt(s[4])
        wr == XInt(s[5])
    IN  CHOOSE x \in
          UNION { UNION { UNION {
            { IdentResult(IdentCount(d.ident), a.calls \o b.calls \o c.calls \o d.calls)
              : d \in {IF Te = <<>> THEN IdentResult(c.ident, <<>>)
                       ELSE IdentifyMechanicalResult(c.ident, XInt(Te[1]), wr, dwr_dt)} }
            : c \in {IdentifyFluxLinkageResult(b.ident, vd, id, vq, iq, wr)} }
            : b \in {IdentifyInductanceResult(a.ident, vd, id, vq, iq, wr, did_dt,
                                              diq_dt)} }
            : a \in {IdentifyResistanceResult(m1, vd, id, vq, iq, wr)} } : TRUE

\* what identified_params.json holds when it was saved by
\* save_identified_parameters: the identified values and the flag
SavedParameters(p, complete) ==
    [Rs |-> XInt(p.Rs), Ld |-> XInt(p.Ld), Lq |-> XInt(p.Lq),
     flux_linkage |-> XInt(p.flux_linkage), J |-> XInt(p.J), B |-> XInt(p.B),
     identification_complete |-> complete]

\* load_identified_parameters; saved is <<>> when there is no file
LoadIdentifiedParameters(m, saved) ==
    IF saved = <<>> THEN m
    ELSE [m EXCEPT !.Rs_identified = saved[1].Rs, !.Ld_identified = saved[1].Ld,
                   !.Lq_identified = saved[1].Lq,
                   !.flux_identified = saved[1].flux_linkage,
                   !.J_identified = saved[1].J, !.B_identified = saved[1].B,
                   !.identification_complete = saved[1].identification_complete]

\* number of update calls made with identification enabled
MaxIdentUpdates == 103

\* the samples of the first update calls after a reset, <<vd, id, vq, iq, wr, Te>>;
\* every later call gets the sample of a machine at rest
IdentProfiles ==
    { <<>>,
      << <<2, 2, 0, 0, 0, <<>> >> >>,
      << <<0, 1, 23, 1, 11, <<1>> >>, <<3, 1, 0, 0, 10, <<>> >> >>,
      << <<2, 2, 0, 0, 0, <<1>> >>, <<0, 0, 3, 2, 5, <<1>> >>,
         <<1, 2, 23, 0, -12, <<2>> >> >> }

AtRest == <<0, 0, 0, 0, 0, <<>> >>

ProfileSample(profile, i) == IF i <= Len(profile) THEN profile[i] ELSE AtRest

NoIdentRun ==
    [op |-> "none", enabled |-> TRUE, before |-> IdentNew(MotorParams),
     updates |-> 0, loaded |-> FALSE, profile |-> <<>>]

IdentIdle ==
    /\ ident = IdentNew(MotorParams) /\ rlsLast = NoRLSCall
    /\ identification_enabled = TRUE /\ identRun = NoIdentRun

IdentifyResistance ==
    /\ RLSWithin(ident.Rs_estimator.theta, ident.Rs_estimator.P)
    /\ \E s \in ElectricalSamples :
         \E r \in {IdentifyResistanceResult(ident, XInt(s[1]), XInt(s[2]), XInt(s[3]),
                                            XInt(s[4]), XInt(s[5]))} :
           /\ ident' = r.ident
           /\ rlsLast' = [op |-> "identify_resistance", calls |-> r.calls,
                          args |-> s]
           /\ UNCHANGED <<latchVars, piVars, plantVars, focVars, fwVars, drVars,
                          hostVars>>

IdentifyInductance ==
    /\ RLSWithin(<<ident.Lq_identified, ident.Ld_identified>>, ident.L_estimator.P)
    /\ Len(ident.Rs_identified.d.mag) <= MaxRLSLimbs
    /\ Len(ident.flux_identified.d.mag) <= MaxRLSLimbs
    /\ \E s \in ElectricalSamples, d \in CurrentDerivatives :
         \E r \in {IdentifyInductanceResult(ident, XInt(s[1]), XInt(s[2]), XInt(s[3]),
                                            XInt(s[4]), XInt(s[5]),
                                            XInt(d[1]), XInt(d[2]))} :
           /\ ident' = r.ident
           /\ rlsLast' = [op |-> "identify_inductance", calls |-> r.calls]
           /\ UNCHANGED <<latchVars, piVars, plantVars, focVars, fwVars, drVars,
                          hostVars>>

IdentifyFluxLinkage ==
    /\ RLSWithin(ident.flux_estimator.theta, ident.flux_estimator.P)
    /\ \E s \in ElectricalSamples :
         \E r \in {IdentifyFluxLinkageResult(ident, XInt(s[1]), XInt(s[2]), XInt(s[3]),
                                             XInt(s[4]), XInt(s[5]))} :
           /\ ident' = r.ident
           /\ rlsLast' = [op |-> "identify_flux_linkage", calls |-> r.calls]
           /\ UNCHANGED <<latchVars, piVars, plantVars, focVars, fwVars, drVars,
                          hostVars>>

IdentifyMechanicalParameters ==
    /\ RLSWithin(ident.mech_estimator.theta, ident.mech_estimator.P)
    /\ \E s \in MechanicalSamples :
         \E r \in {IdentifyMechanicalResult(ident, XInt(s[1]), XInt(s[2]), XInt(s[3]))} :
           /\ ident' = r.ident
           /\ rlsLast' = [op |-> "identify_mechanical_parameters", calls |-> r.calls]
           /\ UNCHANGED <<latchVars, piVars, plantVars, focVars, fwVars, drVars,
                          hostVars>>

IdentReset ==
    /\ ident' = IdentNew(MotorParams)
    /\ rlsLast' = [op |-> "reset", calls |-> <<>>]
    /\ identRun' = NoIdentRun
    /\ UNCHANGED <<identification_enabled, piVars, plantVars, focVars, fwVars, drVars,
                   hostVars>>

NextIdent ==
    \/ IdentifyResistance \/ IdentifyInductance \/ IdentifyFluxLinkage
    \/ IdentifyMechanicalParameters \/ IdentReset

IdentUpdate ==
    /\ identRun.updates < MaxIdentUpdates
    /\ \E profile \in IF identRun.updates = 0 THEN IdentProfiles
                                             ELSE {identRun.profile} :
         \E r \in {IdentUpdateResult(MotorParams, ident, identification_enabled,
                                     SubSeq(ProfileSample(profile, identRun.updates + 1),
                                            1, 5),
                                     ProfileSample(profile, identRun.updates + 1)[6])} :
           /\ ident' = r.ident
           /\ rlsLast' = [op |-> "update", calls |-> r.calls]
           /\ identRun' = [identRun EXCEPT
                               !.op = "update", !.enabled = identification_enabled,
                               !.before = ident,
                               !.updates = IF identification_enabled THEN @ + 1 ELSE @,
                               !.profile = IF identification_enabled THEN profile ELSE @]
           /\ UNCHANGED <<identification_enabled, piVars, plantVars, focVars, fwVars,
                          drVars, hostVars>>

IdentEnable ==
    /\ identification_enabled' = TRUE
    /\ UNCHANGED <<ident, rlsLast, identRun, piVars, plantVars, focVars, fwVars, drVars,
                   hostVars>>

IdentDisable ==
    /\ identification_enabled' = FALSE
    /\ UNCHANGED <<ident, rlsLast, identRun, piVars, plantVars, focVars, fwVars, drVars,
                   hostVars>>

IdentLoadIdentifiedParameters ==
    \E saved \in { <<>>, <<SavedParameters(MotorParams, TRUE)>>,
                   <<SavedParameters(MotorParams, FALSE)>> } :
        /\ ident' = LoadIdentifiedParameters(ident, saved)
        /\ rlsLast' = [op |-> "load_identified_parameters", calls |-> <<>>]
        /\ identRun' = [identRun EXCEPT !.op = "load_identified_parameters",
                                        !.before = ident,
                                        !.loaded = @ \/ saved # <<>>]
        /\ UNCHANGED <<identification_enabled, piVars, plantVars, focVars, fwVars,
                       drVars, hostVars>>

NextIdentUpdate ==
    \/ IdentUpdate \/ IdentEnable \/ IdentDisable \/ IdentReset
    \/ IdentLoadIdentifiedParameters

----------------------------------------------------------------------------
(* DisturbanceRejectionController (disturbance_rejection.py): the control   *)
(* mode selector.                                                           *)

\* the number of set_control_mode calls followed
MaxModeCalls == 3

\* the modes set_control_mode accepts
DRModes == {"observer", "adaptive", "robust", "combined"}

\* __init__: self.control_mode = 'observer'
DRNew == [control_mode |-> "observer"]

SetControlModeUnchecked(d, mode) ==
    [dr |-> [d EXCEPT !.control_mode = mode], raised |-> FALSE]

\* set_control_mode: the controller after the call and whether ValueError
\* was raised
SetControlModeResult(d, mode) ==
    IF mode \in DRModes
    THEN [dr |-> [d EXCEPT !.control_mode = mode], raised |-> FALSE]
    ELSE [dr |-> d, raised |-> TRUE]

\* arguments of set_control_mode: the four modes and strings that are none
\* of them
DRSelectors == DRModes \cup {"", "Observer", "pid", "sliding"}

\* The parameter record the three sub-controllers load.  sample_time is 1/8 s:
\* with observer_bandwidth = 100 rad/s the observer's two integrators are
\* stable for sample times below 0.2 s.
DRParams ==
    [poles |-> 2, Rs |-> 1, Ld |-> 1, Lq |-> 1, flux_linkage |-> 1,
     J |-> 1, B |-> 0, sample_time |-> Rat(1, 8)]

\* the attributes __init__ gives a DisturbanceRejectionController
DRAttributes ==
    {"disturbance_observer", "adaptive_controller", "robust_controller",
     "control_mode", "performance_metrics", "speed_error_buffer",
     "torque_buffer", "disturbance_buffer"}

\* deque(maxlen=1000)
BufferMaxLen == 1000

DequeAppendDropNewest(buf, x) ==
    IF Len(buf) >= BufferMaxLen THEN buf ELSE Append(buf, x)

\* deque.append with maxlen: a full deque drops its oldest element
DequeAppend(buf, x) ==
    IF Len(buf) >= BufferMaxLen THEN Append(Tail(buf), x) ELSE Append(buf, x)

\* a float (in quanta of 1 / PlantScale) as an exact rational
FromQuanta(x) == Rat(x, PlantScale)

\* DisturbanceObserver.load_parameters: self.observer_bandwidth = 100
ObserverBandwidth == 100

\* DisturbanceObserver.initialize_observer / reset
ObserverNew ==
    [disturbance_estimate |-> 0, speed_estimate |-> 0, observed_torque |-> 0]

\* DisturbanceObserver.update: the observer after the call; the value returned
\* is its observed_torque.  Speeds and torques are floats.
ObserverUpdate(p, o, Te, wr_actual, load_torque_estimate) ==
    LET speed_error == Fl(o.speed_estimate - wr_actual)
        gain        == ObserverBandwidth * p.J
        de == Fl(o.disturbance_estimate
                   + RoundDiv(gain * speed_error * p.sample_time.n, p.sample_time.d))
        se == Fl(o.speed_estimate
                   + RoundDiv(Fl(Fl(Te - p.B * wr_actual) - de) * p.sample_time.n,
                              p.J * p.sample_time.d))
    IN  [disturbance_estimate |-> de, speed_estimate |-> se,
         observed_torque |-> Fl(de + load_torque_estimate)]

\* AdaptiveController.load_parameters
AdaptationRate == Rat(1, 100)

MinGain == Rat(1, 10)

MaxGain == RInt(10)

\* the thresholds of the accumulated squared error
CurrentEnergyThreshold == Rat(1, 10)

SpeedEnergyThreshold == RInt(1)

\* the factor applied to the accumulated errors when int(wr) % 100 == 0
EnergyDecay == Rat(9, 10)

\* AdaptiveController.initialize_controller
AdaptiveNew(p) ==
    [id_kp |-> RInt(2 * p.Ld), id_ki |-> RInt(p.Rs),
     iq_kp |-> RInt(2 * p.Lq), iq_ki |-> RInt(p.Rs),
     speed_kp |-> Rat(1, 2), speed_ki |-> RInt(5),
     id_error_integral |-> Zero, iq_error_integral |-> Zero,
     speed_error_integral |-> Zero]

\* AdaptiveController.reset
AdaptiveReset(a) ==
    [a EXCEPT !.id_error_integral = Zero, !.iq_error_integral = Zero,
              !.speed_error_integral = Zero]

\* a gain that is scaled and not clipped
AdaptGainUnclipped(gain, integral, threshold) ==
    QMul(gain,
         IF QGt(integral, threshold)
         THEN QAdd(RInt(1), AdaptationRate)
         ELSE QSub(RInt(1), QMul(AdaptationRate, Rat(1, 2))))

\* one gain of update_gains: scaled up if the loop's accumulated error is
\* above its threshold, down otherwise, then np.clip(gain, min_gain, max_gain)
AdaptGain(gain, integral, threshold) ==
    QClip(QMul(gain,
               IF QGt(integral, threshold)
               THEN QAdd(RInt(1), AdaptationRate)
               ELSE QSub(RInt(1), QMul(AdaptationRate, Rat(1, 2)))),
          MinGain, MaxGain)

\* Python's int(x): truncation toward zero
TruncInt(q) == IF q.n >= 0 THEN q.n \div q.d ELSE -((-q.n) \div q.d)

\* AdaptiveController.update_gains
UpdateGains(p, a, id_error, iq_error, speed_error, wr) ==
    LET idI == QAdd(a.id_error_integral,
                    QMul(QMul(id_error, id_error), p.sample_time))
        iqI == QAdd(a.iq_error_integral,
                    QMul(QMul(iq_error, iq_error), p.sample_time))
        spI == QAdd(a.speed_error_integral,
                    QMul(QMul(speed_error, speed_error), p.sample_time))
        decay == TruncInt(wr) % 100 = 0
    IN  [id_kp |-> AdaptGain(a.id_kp, idI, CurrentEnergyThreshold),
         id_ki |-> AdaptGain(a.id_ki, idI, CurrentEnergyThreshold),
         iq_kp |-> AdaptGain(a.iq_kp, iqI, CurrentEnergyThreshold),
         iq_ki |-> AdaptGain(a.iq_ki, iqI, CurrentEnergyThreshold),
         speed_kp |-> AdaptGain(a.speed_kp, spI, SpeedEnergyThreshold),
         speed_ki |-> AdaptGain(a.speed_ki, spI, SpeedEnergyThreshold),
         id_error_integral |-> IF decay THEN QMul(idI, EnergyDecay) ELSE idI,
         iq_error_integral |-> IF decay THEN QMul(iqI, EnergyDecay) ELSE iqI,
         speed_error_integral |-> IF decay THEN QMul(spI, EnergyDecay) ELSE spI]

\* AdaptiveController.get_adaptive_gains
GetAdaptiveGains(a) ==
    [id_kp |-> a.id_kp, id_ki |-> a.id_ki, iq_kp |-> a.iq_kp, iq_ki |-> a.iq_ki,
     speed_kp |-> a.speed_kp, speed_ki |-> a.speed_ki]

\* RobustController.load_parameters
SlidingGain == RInt(10)

BoundaryLayer == Rat(1, 10)

\* sliding_mode_control: lambda_smc = 10.0
LambdaSMC == RInt(10)

\* RobustController.initialize_controller / reset
RobustNew ==
    [sliding_surface |-> Zero, sliding_surface_prev |-> Zero,
     control_output_prev |-> Zero, hinf_state |-> <<Zero, Zero>>]

\* RobustController.sliding_mode_control: the controller after the call and
\* the control output returned
SlidingModeControlNoLayer(r, error, error_dot, disturbance_estimate) ==
    LET s  == QAdd(error_dot, QMul(LambdaSMC, error))
        eq == QSub(QNeg(error_dot), QMul(LambdaSMC, error))
        sw == QMul(QNeg(SlidingGain), RInt(Sign(s.n)))
    IN  [robust |-> [r EXCEPT !.sliding_surface = s],
         ret |-> QSub(QAdd(eq, sw), disturbance_estimate)]

SlidingModeControl(r, error, error_dot, disturbance_estimate) ==
    LET s  == QAdd(error_dot, QMul(LambdaSMC, error))
        eq == QSub(QNeg(error_dot), QMul(LambdaSMC, error))
        sw == IF QLt(QAbs(s), BoundaryLayer)
              THEN QDiv(QMul(QNeg(SlidingGain), s), BoundaryLayer)
              ELSE QMul(QNeg(SlidingGain), RInt(Sign(s.n)))
    IN  [robust |-> [r EXCEPT !.sliding_surface = s],
         ret |-> QSub(QAdd(eq, sw), disturbance_estimate)]

\* __init__: self.performance_metrics
NoMetrics ==
    [speed_error_rms |-> Plain(0), torque_ripple |-> Zero,
     disturbance_rejection_ratio |-> Plain(0)]

\* DisturbanceRejectionController.__init__, apart from control_mode
DRCoreNew(p) ==
    [observer |-> ObserverNew, adaptive |-> AdaptiveNew(p), robust |-> RobustNew,
     performance_metrics |-> NoMetrics,
     speed_error_buffer |-> <<>>, torque_buffer |-> <<>>,
     disturbance_buffer |-> <<>>]

\* DisturbanceRejectionController.reset
DRResetState(c) ==
    [c EXCEPT !.observer = ObserverNew, !.adaptive = AdaptiveReset(@),
              !.robust = RobustNew,
              !.speed_error_buffer = <<>>, !.torque_buffer = <<>>,
              !.disturbance_buffer = <<>>]

RECURSIVE SumSquares(_, _, _)
\* sum of s[lo]^2 .. s[hi]^2
SumSquares(s, lo, hi) ==
    IF lo > hi THEN 0
    ELSE IF lo = hi THEN s[lo] * s[lo]
    ELSE SumSquares(s, lo, (lo + hi) \div 2) + SumSquares(s, (lo + hi) \div 2 + 1, hi)

RECURSIVE SumAbs(_, _, _)
\* sum of |s[lo]| .. |s[hi]|
SumAbs(s, lo, hi) ==
    IF lo > hi THEN 0
    ELSE IF lo = hi THEN Abs(s[lo])
    ELSE SumAbs(s, lo, (lo + hi) \div 2) + SumAbs(s, (lo + hi) \div 2 + 1, hi)

\* np.max / np.min of a non-empty buffer
SeqMax(s) ==
    CHOOSE m \in { s[i] : i \in 1 .. Len(s) } : \A i \in 1 .. Len(s) : s[i] <= m

SeqMin(s) ==
    CHOOSE m \in { s[i] : i \in 1 .. Len(s) } : \A i \in 1 .. Len(s) : s[i] >= m

SeqMaxAbs(s) ==
    CHOOSE m \in { Abs(s[i]) : i \in 1 .. Len(s) } :
        \A i \in 1 .. Len(s) : Abs(s[i]) <= m

\* update_performance_metrics.  speed_error_rms = sqrt(mean(e^2)) is kept as
\* 1 * sqrt(mean square), the rejection ratio as 1 * sqrt(mean square / max^2).
UpdatePerformanceMetrics(c) ==
    IF Len(c.speed_error_buffer) > 10
    THEN LET n    == Len(c.speed_error_buffer)
             ms   == Rat(SumSquares(c.speed_error_buffer, 1, n),
                         n * PlantScale * PlantScale)
             tabs == SumAbs(c.torque_buffer, 1, n)
             dmax == SeqMaxAbs(c.disturbance_buffer)
             m0   == c.performance_metrics
             m1   == [m0 EXCEPT !.speed_error_rms = Surd(1, ms)]
             m2   == IF tabs > 0
                     THEN [m1 EXCEPT !.torque_ripple =
                              Rat((SeqMax(c.torque_buffer) - SeqMin(c.torque_buffer)) * n,
                                  2 * tabs)]
                     ELSE m1
             m3   == IF dmax > 0
                     THEN [m2 EXCEPT !.disturbance_rejection_ratio =
                              Surd(1, QDiv(ms, Rat(dmax * dmax,
                                                   PlantScale * PlantScale)))]
                     ELSE m2
         IN  [c EXCEPT !.performance_metrics = m3]
    ELSE c

\* compensation = disturbance_torque / (1.5 * self.poles * self.flux_linkage)
FeedForward(p, disturbance_torque) ==
    QDiv(FromQuanta(disturbance_torque), Rat(3 * p.poles * p.flux_linkage, 2))

NoBundle == [id_ref_modified |-> Zero, iq_ref_modified |-> Zero,
             disturbance_estimate |-> 0, adaptive_gains |-> <<>>,
             performance_metrics |-> NoMetrics]

\* the end of update: update_performance_metrics and the returned bundle
DRFinish(c, id_ref, iq_ref_modified, disturbance_torque) ==
    LET c2 == UpdatePerformanceMetrics(c)
    IN  [core |-> c2, raised |-> FALSE,
         ret |-> [id_ref_modified |-> id_ref, iq_ref_modified |-> iq_ref_modified,
                  disturbance_estimate |-> disturbance_torque,
                  adaptive_gains |-> GetAdaptiveGains(c2.adaptive),
                  performance_metrics |-> c2.performance_metrics]]

\* DisturbanceRejectionController.update: the controller after the call,
\* whether an error was raised, and the bundle returned.  The observer is
\* updated and the three buffers are appended to before the mode is looked
\* at; 'observer' and 'combined' then read self.poles and self.flux_linkage,
\* which raises AttributeError when __init__ has not set them.
DRUpdateResult(p, mode, c, Te, wr_actual, wr_ref, id_actual, iq_actual, id_ref, iq_ref) ==
    LET speed_error == Fl(wr_ref - wr_actual)
        id_error    == QSub(id_ref, id_actual)
        iq_error    == QSub(iq_ref, iq_actual)
        obs         == ObserverUpdate(p, c.observer, Te, wr_actual, 0)
        d           == obs.observed_torque
        c1 == [c EXCEPT !.observer = obs,
                        !.speed_error_buffer = DequeAppend(@, speed_error),
                        !.torque_buffer = DequeAppend(@, Te),
                        !.disturbance_buffer = DequeAppend(@, d)]
        known  == {"poles", "flux_linkage"} \subseteq DRAttributes
        gains  == UpdateGains(p, c1.adaptive, id_error, iq_error,
                              FromQuanta(speed_error), FromQuanta(wr_actual))
        smc    == SlidingModeControl(c1.robust, FromQuanta(speed_error), Zero,
                                     FromQuanta(d))
    IN  IF mode = "observer"
        THEN IF known
             THEN DRFinish(c1, id_ref, QAdd(iq_ref, FeedForward(p, d)), d)
             ELSE [core |-> c1, raised |-> TRUE, ret |-> NoBundle]
        ELSE IF mode = "adaptive"
        THEN DRFinish([c1 EXCEPT !.adaptive = gains], id_ref, iq_ref, d)
        ELSE IF mode = "robust"
        THEN DRFinish([c1 EXCEPT !.robust = smc.robust], id_ref,
                      QAdd(iq_ref, QDiv(smc.ret, RInt(10))), d)
        ELSE IF mode = "combined"
        THEN IF known
             THEN DRFinish([c1 EXCEPT !.adaptive = gains, !.robust = smc.robust],
                           id_ref,
                           QAdd(QAdd(iq_ref, FeedForward(p, d)),
                                QDiv(smc.ret, RInt(20))), d)
             ELSE [core |-> c1, raised |-> TRUE, ret |-> NoBundle]
        ELSE DRFinish(c1, id_ref, iq_ref, d)

\* update is followed for this many calls after a reset()
MaxDRUpdates == 1003

\* the adaptive gains are followed while their denominators stay within this
MaxGainDenominator == 40000

\* update is driven by a periodic signal of <<electromagnetic torque, speed
\* reference>> pairs, chosen at the first call after a reset(): rest, or a
\* cycle of three samples up to 3 N.m and 1 rad/s.  The measured speed is 0.
DRProfiles ==
    { << <<0, 0>> >>,
      << <<3 * PlantScale, PlantScale>>, <<0, 0>>, <<3 * PlantScale, 0>> >> }

NoUpdateCall ==
    [op |-> "none", Te |-> 0, wr_actual |-> 0, wr_ref |-> 0,
     id_ref |-> Zero, iq_ref |-> Zero, mode |-> "observer",
     profile |-> <<>>, raised |-> FALSE, ret |-> NoBundle]

NoModeCall == [op |-> "none", mode |-> "", raised |-> FALSE, before |-> "observer"]

DRIdle ==
    /\ dr = DRNew /\ drLast = NoModeCall /\ drHistory = <<>>
    /\ drCore = DRCoreNew(DRParams) /\ drUpd = NoUpdateCall /\ drSamples = <<>>

DRSetControlMode ==
    /\ Len(drHistory) < MaxModeCalls
    /\ \E mode \in DRSelectors :
         \E r \in {SetControlModeResult(dr, mode)} :
           /\ dr' = r.dr
           /\ drLast' = [op |-> "set_control_mode", mode |-> mode,
                         raised |-> r.raised, before |-> dr.control_mode]
           /\ drHistory' = Append(drHistory, [mode |-> mode, raised |-> r.raised])
           /\ UNCHANGED <<piVars, plantVars, focVars, fwVars, identVars,
                          drCore, drUpd, drSamples, hostVars>>

NextDR == DRSetControlMode

DRUpdate ==
    /\ Len(drSamples) < MaxDRUpdates
    /\ \A f \in DOMAIN GetAdaptiveGains(drCore.adaptive) :
           drCore.adaptive[f].d <= MaxGainDenominator
    /\ \E profile \in DRProfiles :
         /\ Len(drSamples) > 0 => profile = drUpd.profile
         /\ \E in \in {profile[(Len(drSamples) % Len(profile)) + 1]} :
            \E r \in {DRUpdateResult(DRParams, dr.control_mode, drCore, in[1], 0,
                                     in[2], Zero, Zero, Zero, RInt(1))} :
              /\ drCore' = r.core
              /\ drUpd' = [op |-> "update", Te |-> in[1], wr_actual |-> 0,
                           wr_ref |-> in[2], id_ref |-> Zero, iq_ref |-> RInt(1),
                           mode |-> dr.control_mode, profile |-> profile,
                           raised |-> r.raised, ret |-> r.ret]
              /\ drSamples' = Append(drSamples,
                                     <<in[2], in[1], r.core.observer.observed_torque>>)
    /\ UNCHANGED <<dr, drLast, drHistory, piVars, plantVars, focVars, fwVars,
                   identVars, hostVars>>

\* reset() is called during the first calls of a run or once the buffers are
\* full
DRReset ==
    /\ Len(drSamples) <= 2 \/ Len(drSamples) >= BufferMaxLen
    /\ drCore' = DRResetState(drCore)
    /\ drUpd' = [NoUpdateCall EXCEPT !.op = "reset", !.mode = dr.control_mode]
    /\ drSamples' = <<>>
    /\ UNCHANGED <<dr, drLast, drHistory, piVars, plantVars, focVars, fwVars,
                   identVars, hostVars>>

NextDRUpdate == DRUpdate \/ DRReset

\* update_gains is followed for this many calls
MaxGainCalls == 2

\* the adaptive controller as constructed, and one whose d-axis gains are at or
\* below min_gain, whose q-axis gains are at max_gain and whose speed gains
\* are at the two limits
GainStarts ==
    { AdaptiveNew(DRParams),
      [AdaptiveNew(DRParams) EXCEPT !.id_kp = Rat(1, 50), !.id_ki = Rat(1, 10),
                                    !.iq_kp = RInt(10), !.iq_ki = RInt(10),
                                    !.speed_kp = Rat(1, 10), !.speed_ki = RInt(10)] }

\* current errors (A), speed errors (rad/s) and speeds (rad/s) given to
\* update_gains
GainCurrentErrors == { Zero, RInt(1) }

GainSpeedErrors == { RInt(2), RInt(3) }

GainSpeeds == { Zero, RInt(50) }

NoGainCall ==
    [op |-> "none", before |-> AdaptiveNew(DRParams), id_error |-> Zero,
     iq_error |-> Zero, speed_error |-> Zero, wr |-> Zero, calls |-> 0]

AdaptiveUpdateGains ==
    /\ drUpd.calls < MaxGainCalls
    /\ \E id_error \in GainCurrentErrors, iq_error \in GainCurrentErrors,
          speed_error \in GainSpeedErrors, wr \in GainSpeeds :
         \E a \in {UpdateGains(DRParams, drCore.adaptive, id_error, iq_error,
                               speed_error, wr)} :
            /\ drCore' = [drCore EXCEPT !.adaptive = a]
            /\ drUpd' = [op |-> "update_gains", before |-> drCore.adaptive,
                         id_error |-> id_error, iq_error |-> iq_error,
                         speed_error |-> speed_error, wr |-> wr,
                         calls |-> drUpd.calls + 1]
    /\ UNCHANGED <<dr, drLast, drHistory, drSamples, piVars, plantVars, focVars,
                   fwVars, identVars, hostVars>>

AdaptiveControllerReset ==
    /\ drUpd.op = "update_gains"
    /\ drCore' = [drCore EXCEPT !.adaptive = AdaptiveReset(@)]
    /\ drUpd' = [drUpd EXCEPT !.op = "reset", !.before = drCore.adaptive]
    /\ UNCHANGED <<dr, drLast, drHistory, drSamples, piVars, plantVars, focVars,
                   fwVars, identVars, hostVars>>

NextGains == AdaptiveUpdateGains \/ AdaptiveControllerReset

\* tracking errors of up to this many two-hundredths: with lambda = 10 the
\* sliding surface moves in steps of 0.05 through the boundary layer of 0.1
MaxSMCError == 4

SMCErrors == { Rat(n, 200) : n \in -MaxSMCError .. MaxSMCError }

SMCErrorDots == { Rat(n, 40) : n \in -2 .. 2 }

SMCDisturbances == { RInt(-1), Zero, RInt(1) }

RobustSlidingModeControl ==
    /\ \E error \in SMCErrors, error_dot \in SMCErrorDots,
          disturbance_estimate \in SMCDisturbances :
         \E r \in {SlidingModeControl(drCore.robust, error, error_dot,
                                      disturbance_estimate)} :
            /\ drCore' = [drCore EXCEPT !.robust = r.robust]
            /\ drUpd' = [op |-> "sliding_mode_control", error |-> error,
                         error_dot |-> error_dot,
                         disturbance_estimate |-> disturbance_estimate,
                         ret |-> r.ret]
    /\ UNCHANGED <<dr, drLast, drHistory, drSamples, piVars, plantVars, focVars,
                   fwVars, identVars, hostVars>>

NextSMC == RobustSlidingModeControl

----------------------------------------------------------------------------
(* Parameter files and their loading: load_parameters of each component,   *)
(* the constructors, and MotorControlSimulation.load_parameters.           *)

\* a reload is followed this many times
MaxReloads == 2

\* the fields of a parameter file
CfgKeys ==
    {"poles", "Rs", "Ld", "Lq", "flux_linkage", "J", "B", "max_current",
     "max_voltage", "dc_bus_voltage", "sample_time"}

CfgNominalValues ==
    [poles |-> 2, Rs |-> 1, Ld |-> 1, Lq |-> 1, flux_linkage |-> 1, J |-> 1,
     B |-> 0, max_current |-> 4, max_voltage |-> 3, dc_bus_voltage |-> 6,
     sample_time |-> 1]

CfgRetunedValues ==
    [poles |-> 4, Rs |-> 2, Ld |-> 2, Lq |-> 3, flux_linkage |-> 2, J |-> 2,
     B |-> 1, max_current |-> 6, max_voltage |-> 5, dc_bus_voltage |-> 12,
     sample_time |-> 2]

\* what json.load returns: the values of the keys the file has
CfgFile(values, keys) == [values |-> values, keys |-> keys]

CfgNominal == CfgFile(CfgNominalValues, CfgKeys)

\* the files a component is given: the nominal record, a second valid one,
\* one with sample_time = 0, one with Ld = -1 and Lq = 0, and the second one
\* without its max_current key
CfgFiles ==
    { CfgNominal,
      CfgFile(CfgRetunedValues, CfgKeys),
      CfgFile([CfgNominalValues EXCEPT !.sample_time = 0], CfgKeys),
      CfgFile([CfgNominalValues EXCEPT !.Ld = -1, !.Lq = 0], CfgKeys),
      CfgFile(CfgRetunedValues, CfgKeys \ {"max_current"}) }

\* the components of a MotorControlSimulation, in the order load_parameters
\* reloads them
ReloadOrder ==
    <<"motor", "foc", "fw", "ident", "observer", "adaptive", "robust">>

Components == { ReloadOrder[i] : i \in DOMAIN ReloadOrder }

\* self.<key> = params[<key>] for each key of a sequence
SameName(keys) == [i \in DOMAIN keys |-> <<keys[i], keys[i]>>]

\* the assignments self.<attribute> = params[<key>] of each load_parameters,
\* in the order they are made
LoadOrder ==
    [motor    |-> SameName(<<"poles", "Rs", "Ld", "Lq", "flux_linkage", "J", "B",
                             "max_current", "max_voltage", "dc_bus_voltage",
                             "sample_time">>),
     foc      |-> SameName(<<"poles", "Rs", "Ld", "Lq", "flux_linkage",
                             "max_current", "max_voltage", "dc_bus_voltage",
                             "sample_time">>),
     fw       |-> SameName(<<"poles", "Rs", "Ld", "Lq", "flux_linkage",
                             "max_current", "max_voltage", "dc_bus_voltage",
                             "sample_time">>),
     ident    |-> << <<"poles", "poles">>, <<"Rs_nominal", "Rs">>,
                     <<"Ld_nominal", "Ld">>, <<"Lq_nominal", "Lq">>,
                     <<"flux_nominal", "flux_linkage">>, <<"J_nominal", "J">>,
                     <<"B_nominal", "B">>, <<"max_current", "max_current">>,
                     <<"sample_time", "sample_time">> >>,
     observer |-> SameName(<<"J", "B", "poles", "sample_time">>),
     adaptive |-> SameName(<<"Rs", "Ld", "Lq", "flux_linkage", "J", "B",
                             "sample_time">>),
     robust   |-> SameName(<<"Rs", "Ld", "Lq", "flux_linkage", "J", "B",
                             "sample_time">>)]

NoAttributes == [k \in {} |-> 0]

RECURSIVE AssignInOrder(_, _, _, _)
\* the assignments order[i], order[i+1], ... from a file: params[key] raises
\* KeyError for a key the file lacks, and the assignments made before it stay
AssignInOrder(attrs, order, i, file) ==
    IF i > Len(order) THEN [attrs |-> attrs, raised |-> FALSE]
    ELSE IF order[i][2] \notin file.keys THEN [attrs |-> attrs, raised |-> TRUE]
    ELSE AssignInOrder((order[i][1] :> file.values[order[i][2]]) @@ attrs,
                       order, i + 1, file)

\* what load_parameters assigns after the fields of the file
DerivedOnLoad(comp, a) ==
    CASE comp = "foc" ->
             [id_kp |-> 2 * a.Ld, id_ki |-> a.Rs, iq_kp |-> 2 * a.Lq,
              iq_ki |-> a.Rs, speed_kp |-> Rat(1, 2), speed_ki |-> RInt(5)]
      [] comp = "fw" ->
             [base_speed |-> Surd(Rat(2 * a.dc_bus_voltage,
                                      a.flux_linkage * a.poles), Rat(1, 3)),
              fw_kp |-> FWKp, fw_ki |-> FWKi, voltage_margin |-> VoltageMargin]
      [] comp = "observer" ->
             [observer_bandwidth |-> ObserverBandwidth,
              observer_gain |-> ObserverBandwidth * a.J]
      [] OTHER -> NoAttributes

\* <component>.load_parameters(file) on a component with the given attributes:
\* its attributes after the call, and whether it raised
LoadParameters(comp, attrs, file) ==
    LET r == AssignInOrder(attrs, LoadOrder[comp], 1, file)
    IN  IF r.raised THEN r
        ELSE [attrs |-> DerivedOnLoad(comp, r.attrs) @@ r.attrs, raised |-> FALSE]

\* PIController(kp, ki, [lo, hi]) as initialize_controllers builds it
PIBuilt(kp, ki, lo, hi) == [kp |-> kp, ki |-> ki, lo |-> lo, hi |-> hi]

\* what the constructor builds from the loaded attributes, once:
\* FOCController.initialize_controllers, FluxWeakeningController.initialize_controller
InitializedOnConstruct(comp, a) ==
    CASE comp = "foc" ->
             [id_controller |-> PIBuilt(a.id_kp, a.id_ki, -a.max_voltage, a.max_voltage),
              iq_controller |-> PIBuilt(a.iq_kp, a.iq_ki, -a.max_voltage, a.max_voltage),
              speed_controller |-> PIBuilt(a.speed_kp, a.speed_ki,
                                           -a.max_current, a.max_current)]
      [] comp = "fw" ->
             [fw_controller |-> PIBuilt(a.fw_kp, a.fw_ki, -a.max_current, 0)]
      [] OTHER -> NoAttributes

\* <Component>(file): load_parameters, then the initialize_* method
Construct(comp, file) ==
    LET r == LoadParameters(comp, NoAttributes, file)
    IN  IF r.raised THEN r
        ELSE [attrs |-> InitializedOnConstruct(comp, r.attrs) @@ r.attrs,
              raised |-> FALSE]

\* MotorControlSimulation.__init__ with every component built from one file
ConstructAll(file) == [c \in Components |-> Construct(c, file).attrs]

NoReload(c) == [pc |-> 0, file |-> CfgNominal, before |-> c, failed |-> FALSE,
                count |-> 0]

CfgIdle ==
    /\ params = ConstructAll(CfgNominal)
    /\ reload = NoReload(params)
    /\ observed = params

\* load_parameters of the simulation begins: the file chosen in the dialog is
\* read with json.load
ReloadBegin ==
    /\ reload.pc = 0
    /\ reload.count < MaxReloads
    /\ \E file \in CfgFiles :
           reload' = [pc |-> 1, file |-> file, before |-> params, failed |-> FALSE,
                      count |-> reload.count + 1]
    /\ UNCHANGED <<params, observed, piVars, plantVars, focVars, fwVars, identVars,
                   drVars, loopVars, tick>>

\* ... and calls load_parameters of the next component; an exception ends the
\* reload (except Exception: showerror)
ReloadComponent ==
    /\ reload.pc \in DOMAIN ReloadOrder
    /\ \E r \in {LoadParameters(ReloadOrder[reload.pc],
                                params[ReloadOrder[reload.pc]], reload.file)} :
         /\ params' = [params EXCEPT ![ReloadOrder[reload.pc]] = r.attrs]
         /\ reload' = IF r.raised
                      THEN [reload EXCEPT !.pc = 0, !.failed = TRUE]
                      ELSE [reload EXCEPT !.pc = IF reload.pc = Len(ReloadOrder)
                                                 THEN 0 ELSE reload.pc + 1]
    /\ UNCHANGED <<observed, piVars, plantVars, focVars, fwVars, identVars, drVars,
                   loopVars, tick>>

\* simulation_step on the loop thread works with the attributes the
\* components hold when it runs
CfgSimulationStep ==
    /\ observed' = params
    /\ UNCHANGED <<params, reload, piVars, plantVars, focVars, fwVars, identVars,
                   drVars, loopVars, tick>>

NextConfig == ReloadBegin \/ ReloadComponent \/ CfgSimulationStep

----------------------------------------------------------------------------
\* MotorControlSimulation: the loop thread and the buttons (simulation.py)

\* number of simulation_loop threads ever started
MaxThreads == 3

\* number of sample times the simulated time advances
MaxLoopSteps == 2

\* where a simulation_loop thread is: at the test of `while self.is_running',
\* inside simulation_step, in time.sleep, or returned
LoopPositions == {"test", "simulation_step", "sleep", "returned"}

LoopIdle == is_running = FALSE /\ threads = <<>> /\ simulation_time = 0

\* start_simulation: only when not running, sets the flag and starts a new
\* thread; the thread started before is neither joined nor looked at
StartSimulation ==
    /\ ~is_running
    /\ Len(threads) < MaxThreads
    /\ is_running' = TRUE
    /\ threads' = Append(threads, "test")
    /\ UNCHANGED <<simulation_time, cfgVars, tick, piVars, plantVars, focVars, fwVars,
                   identVars, drVars>>

\* pause_simulation clears the flag
PauseSimulation ==
    /\ is_running
    /\ is_running' = FALSE
    /\ UNCHANGED <<threads, simulation_time, cfgVars, tick, piVars, plantVars, focVars,
                   fwVars, identVars, drVars>>

\* reset_simulation clears the flag and the simulated time on the caller's
\* thread (the components' reset calls leave the parameters alone)
ResetSimulation ==
    /\ is_running' = FALSE
    /\ simulation_time' = 0
    /\ UNCHANGED <<threads, cfgVars, tick, piVars, plantVars, focVars, fwVars,
                   identVars, drVars>>

\* simulation_loop: the test of the while condition
LoopTest ==
    \E t \in DOMAIN threads :
        /\ threads[t] = "test"
        /\ threads' = [threads EXCEPT ![t] = IF is_running THEN "simulation_step"
                                                           ELSE "returned"]
        /\ UNCHANGED <<is_running, simulation_time, cfgVars, tick, piVars, plantVars,
                       focVars, fwVars, identVars, drVars>>

\* ... simulation_step returns: self.simulation_time += self.sample_time
LoopStepDone ==
    \E t \in DOMAIN threads :
        /\ threads[t] = "simulation_step"
        /\ simulation_time < MaxLoopSteps
        /\ threads' = [threads EXCEPT ![t] = "sleep"]
        /\ simulation_time' = simulation_time + 1
        /\ UNCHANGED <<is_running, cfgVars, tick, piVars, plantVars, focVars, fwVars,
                       identVars, drVars>>

\* ... time.sleep returns
LoopWake ==
    \E t \in DOMAIN threads :
        /\ threads[t] = "sleep"
        /\ threads' = [threads EXCEPT ![t] = "test"]
        /\ UNCHANGED <<is_running, simulation_time, cfgVars, tick, piVars, plantVars,
                       focVars, fwVars, identVars, drVars>>

NextLoop ==
    \/ StartSimulation \/ PauseSimulation \/ ResetSimulation
    \/ LoopTest \/ LoopStepDone \/ LoopWake

----------------------------------------------------------------------------
\* MotorControlSimulation.simulation_step: what one control tick calls

\* the attributes a PMSMModel has (load_parameters, reset_state)
PlantAttributes ==
    {"poles", "Rs", "Ld", "Lq", "flux_linkage", "J", "B", "max_current",
     "max_voltage", "dc_bus_voltage", "sample_time",
     "id", "iq", "wr", "theta_e", "load_torque"}

\* FOCController.reset: self.id_ref = 0.0, and nothing in the simulation calls
\* set_id_reference
NoTick ==
    [calls |-> <<>>, enable_flux_weakening |-> FALSE,
     enable_disturbance_rejection |-> FALSE, foc_id_ref |-> Zero,
     id_ref_tracked |-> Zero, id_fw |-> Zero, results_id_ref |-> Zero,
     vd |-> 0, vq |-> 0, raised |-> FALSE]

TickIdle == tick = NoTick

\* the calls of one simulation_step in order and the d-axis references:
\* FOCController.update tracks self.id_ref and returns vd, vq; the
\* flux-weakening output is stored in the dictionary foc_results only; the
\* arguments of disturbance_rejection.update read self.motor.Te, which raises
\* AttributeError unless the plant has that attribute
SimulationStepResult(t, f, fwOn, drOn, wr, vd, vq, iq_ref, method) ==
    LET r == IF fwOn THEN FWUpdateResult(FWParams, f, wr, vd, vq, iq_ref, method)
                     ELSE FWResult(f, Zero)
        c1 == <<"PMSMModel.get_three_phase_currents", "FOCController.update">>
        c2 == IF fwOn THEN Append(c1, "FluxWeakeningController.update") ELSE c1
        raised == drOn /\ "Te" \notin PlantAttributes
        c3 == IF drOn /\ ~raised
              THEN Append(c2, "DisturbanceRejectionController.update") ELSE c2
        c4 == IF raised THEN c3 ELSE Append(c3, "PMSMModel.update")
    IN  [fw |-> r.fw,
         tick |-> [calls |-> c4, enable_flux_weakening |-> fwOn,
                   enable_disturbance_rejection |-> drOn,
                   foc_id_ref |-> t.foc_id_ref,
                   id_ref_tracked |-> t.foc_id_ref,
                   id_fw |-> r.ret,
                   results_id_ref |-> IF fwOn THEN r.ret ELSE t.foc_id_ref,
                   vd |-> vd, vq |-> vq, raised |-> raised]]

\* one simulation_step; the speed of the plant and what the current loop
\* returned are drawn from the values the flux-weakening controller is
\* exercised with
SimulationStep ==
    \E fwOn \in BOOLEAN, drOn \in BOOLEAN, wr \in FWSpeeds, iq_ref \in FWIqRefs,
       v \in FWVoltages, method \in FWMethods :
        \E r \in {SimulationStepResult(tick, fw, fwOn, drOn, wr, v[1], v[2], iq_ref,
                                       method)} :
            /\ r.fw.id_fw.d <= MaxFWDenominator
            /\ fw' = r.fw
            /\ tick' = r.tick
            /\ UNCHANGED <<fwLast, optCall, cfgVars, loopVars, piVars, plantVars,
                           focVars, identVars, drVars>>

NextTick == SimulationStep

HostIdle == CfgIdle /\ LoopIdle /\ TickIdle

----------------------------------------------------------------------------
(* Specifications, one per component.                                    *)

InitPlant == PlantIdle /\ PIIdle /\ FOCIdle /\ FWIdle /\ IdentIdle /\ DRIdle /\ HostIdle

SpecPlant == InitPlant /\ [][NextPlant]_vars

\* the plant with arguments that are not finite numbers as well
SpecPlantNonFinite == InitPlant /\ [][NextPlantNonFinite]_vars

\* The clamps are pure functions of their arguments and the parameter record;
\* they are applied with the plant at rest and after one update with vq = 5 V.
InitLimits ==
    /\ plant \in { PlantRest,
                   PlantStep(MotorParams, PlantRest, 0, 5 * PlantScale, 0) }
    /\ plantLast = NoPlantCall
    /\ plantTicks = 0
    /\ plantNonFinite = {}
    /\ PIIdle /\ FOCIdle /\ FWIdle /\ IdentIdle /\ DRIdle /\ HostIdle

SpecLimits == InitLimits /\ [][NextLimits]_vars

InitFOC == FOCIdle /\ PIIdle /\ PlantIdle /\ FWIdle /\ IdentIdle /\ DRIdle /\ HostIdle

SpecFOC == InitFOC /\ [][NextFOC]_vars

SpecSVM == InitFOC /\ [][NextSVM]_vars

SpecFOCUpdate == InitFOC /\ [][NextFOCUpdate]_vars

InitPI == PIStart /\ PlantIdle /\ FOCIdle /\ FWIdle /\ IdentIdle /\ DRIdle /\ HostIdle

InitFW == FWIdle /\ PIIdle /\ PlantIdle /\ FOCIdle /\ IdentIdle /\ DRIdle /\ HostIdle

InitIdent == IdentIdle /\ PIIdle /\ PlantIdle /\ FOCIdle /\ FWIdle /\ DRIdle /\ HostIdle

InitDR == DRIdle /\ PIIdle /\ PlantIdle /\ FOCIdle /\ FWIdle /\ IdentIdle /\ HostIdle

SpecFW == InitFW /\ [][NextFW]_vars

InitFWDecay ==
    /\ \E x \in DecayStarts, b \in BOOLEAN :
           fw = [FWNew EXCEPT !.id_fw = x, !.in_flux_weakening = b]
    /\ fwLast = NoFWCall /\ optCall = NoOptCall(FWParams)
    /\ PIIdle /\ PlantIdle /\ FOCIdle /\ IdentIdle /\ DRIdle /\ HostIdle

SpecFWDecay == InitFWDecay /\ [][NextFWDecay]_vars /\ WF_vars(NextFWDecay)

SpecIdent == InitIdent /\ [][NextIdent]_vars

SpecDR == InitDR /\ [][NextDR]_vars

\* update and reset are followed in each mode: from the state after one
\* successful set_control_mode call on a new controller
InitDRUpdate ==
    /\ \E mode \in DRModes :
         /\ dr = SetControlModeResult(DRNew, mode).dr
         /\ drLast = [op |-> "set_control_mode", mode |-> mode,
                      raised |-> FALSE, before |-> DRNew.control_mode]
         /\ drHistory = <<[mode |-> mode, raised |-> FALSE]>>
    /\ drCore = DRCoreNew(DRParams) /\ drUpd = NoUpdateCall /\ drSamples = <<>>
    /\ PIIdle /\ PlantIdle /\ FOCIdle /\ FWIdle /\ IdentIdle /\ HostIdle

SpecDRUpdate == InitDRUpdate /\ [][NextDRUpdate]_vars

InitGains ==
    /\ dr = DRNew /\ drLast = NoModeCall /\ drHistory = <<>> /\ drSamples = <<>>
    /\ \E a \in GainStarts : drCore = [DRCoreNew(DRParams) EXCEPT !.adaptive = a]
    /\ drUpd = NoGainCall
    /\ PIIdle /\ PlantIdle /\ FOCIdle /\ FWIdle /\ IdentIdle /\ HostIdle

SpecGains == InitGains /\ [][NextGains]_vars

SpecSMC == InitDR /\ [][NextSMC]_vars

\* a simulation whose components were all constructed from one file that
\* has every key
InitConfig ==
    /\ \E file \in CfgFiles :
         /\ \A c \in Components : ~Construct(c, file).raised
         /\ params = ConstructAll(file)
    /\ reload = NoReload(params)
    /\ observed = params
    /\ LoopIdle /\ TickIdle
    /\ PIIdle /\ PlantIdle /\ FOCIdle /\ FWIdle /\ IdentIdle /\ DRIdle

SpecConfig == InitConfig /\ [][NextConfig]_vars

InitLoop ==
    /\ PIIdle /\ PlantIdle /\ FOCIdle /\ FWIdle /\ IdentIdle /\ DRIdle /\ HostIdle

SpecLoop == InitLoop /\ [][NextLoop]_vars

InitTick ==
    /\ PIIdle /\ PlantIdle /\ FOCIdle /\ FWIdle /\ IdentIdle /\ DRIdle /\ HostIdle

SpecTick == InitTick /\ [][NextTick]_vars

\* a plant in one of the states the phase currents are asked for
InitPhase ==
    /\ plant \in PhaseStates
    /\ plantLast = NoPlantCall /\ plantTicks = 0 /\ plantNonFinite = {}
    /\ PIIdle /\ FOCIdle /\ FWIdle /\ IdentIdle /\ DRIdle /\ HostIdle

SpecPhase == InitPhase /\ [][NextPhase]_vars

InitIdentUpdate ==
    /\ PIIdle /\ PlantIdle /\ FOCIdle /\ FWIdle /\ IdentIdle /\ DRIdle /\ HostIdle

SpecIdentUpdate == InitIdentUpdate /\ [][NextIdentUpdate]_vars

\* a flux-weakening controller constructed from one of the records
InitOptimal ==
    /\ fw = FWNew /\ fwLast = NoFWCall
    /\ \E p \in OptMachines : optCall = NoOptCall(p)
    /\ PIIdle /\ PlantIdle /\ FOCIdle /\ IdentIdle /\ DRIdle /\ HostIdle

SpecOptimal == InitOptimal /\ [][NextOptimal]_vars

SpecPI == InitPI /\ [][NextPI]_vars

----------------------------------------------------------------------------
(* The claims.                                                           *)

\* the integral advanced by this call's contribution
PIAdvanced == QAdd(piLast.before, QMul(piLast.error, piLast.dt))

\* C1: with output limits set, update(error, dt) returns
\* clamp(Kp*error + Ki*(integral_before + error*dt), low, high); the returned
\* value lies in [low, high]; with zero error and zero integral it is 0.
C1_PIOutputClamped ==
    (piLast.op = "update" /\ pi.limited) =>
        /\ piLast.out =
               QClip(QAdd(QMul(pi.kp, piLast.error), QMul(pi.ki, PIAdvanced)),
                     pi.lo, pi.hi)
        /\ QLe(pi.lo, piLast.out) /\ QLe(piLast.out, pi.hi)
        /\ (piLast.error = Zero /\ piLast.before = Zero => piLast.out = Zero)

\* an update of the flux-weakening controller (limits [-Imax, 0]) saturated at
\* the low limit
C1_Witness ==
    /\ piLast.op = "update" /\ pi.limited
    /\ QLt(piLast.raw, pi.lo) /\ piLast.out = pi.lo
    /\ pi.hi = Zero

PIScenario ==
    pi.kp = RInt(1) /\ pi.ki = RInt(1) /\ pi.limited
        /\ pi.lo = RInt(-1) /\ pi.hi = RInt(1)

\* C3: from reset, with Kp = 1, Ki = 1, limits [-1, 1], dt = 0.1, consecutive
\* updates with constant error 10 each return 1 and leave the integral 0; in
\* general the integral does not grow in an update that saturates high (nor
\* shrink in one that saturates low).
C3_PIBoundedUnderSaturation ==
    /\ (PIScenario /\ piRun \in PIConstRun) =>
           (piLast.out = RInt(1) /\ pi.integral = Zero)
    /\ (piLast.op = "update" /\ pi.limited /\ QGt(piLast.raw, pi.hi)) =>
           QLe(pi.integral, piLast.before)
    /\ (piLast.op = "update" /\ pi.limited /\ QLt(piLast.raw, pi.lo)) =>
           QGe(pi.integral, piLast.before)

\* the scenario has run for at least two consecutive constant-error updates
C3_Witness ==
    /\ PIScenario /\ piRun = "const10_many"
    /\ piLast.before = Zero /\ piLast.raw = RInt(11) /\ piLast.out = RInt(1)

\* C4: after any sequence of update and reset_state calls the stored and the
\* returned electrical angle satisfy 0 <= theta_e < 2*pi.
C4_ThetaInHalfOpenRange ==
    /\ 0 <= plant.theta_e /\ plant.theta_e < TwoPi
    /\ 0 <= plantLast.theta_ret /\ plantLast.theta_ret < TwoPi

\* the squared limit of the clamp that was called last
LastLimitSq ==
    IF plantLast.op = "apply_voltage_limits"
    THEN QDiv(QMul(RInt(MotorParams.dc_bus_voltage.base
                            * MotorParams.dc_bus_voltage.base),
                   MotorParams.dc_bus_voltage.sq), RInt(3))
    ELSE RInt(MotorParams.max_current * MotorParams.max_current)

LastMagSq == RInt(plantLast.a * plantLast.a + plantLast.b * plantLast.b)

C6_SectorCoversCircle ==
    (svm.op = "get_sector") =>
        /\ svm.sector \in 1 .. 6
        /\ (svm.atan = 0) => svm.sector = 1
        /\ (svm.atan < 0 /\ svm.atan > -Pi3) => svm.sector = 6
        /\ \A k \in 0 .. 3 : (svm.atan = k * Pi3) => svm.sector = k + 1
        /\ (svm.atan = -2 * Pi3) => svm.sector = 5
        /\ (svm.atan = -Pi3) => svm.sector = 6
        /\ (svm.atan >= 0) =>
              /\ (svm.sector - 1) * Pi3 <= svm.atan
              /\ svm.atan < svm.sector * Pi3

\* the wrap boundary: an angle just below zero became 2*pi when 2*pi was
\* added, and the sector came out as 6
C6_Witness ==
    /\ svm.op = "get_sector"
    /\ svm.atan < 0 /\ Fl(svm.atan + TwoPi) = TwoPi
    /\ svm.sector = 6

\* C7: speed_based_flux_weakening(wr, iq_ref): for wr > base_speed it returns
\* clip(-(flux + Lq*iq_ref)/Ld, -Imax, 0), stores it in id_fw and sets
\* in_flux_weakening; for wr <= base_speed it returns exactly 0, zeroes id_fw,
\* clears in_flux_weakening and resets the PI state.  With base_speed = 100,
\* wr = 150 and iq_ref = 5 the result is negative; with wr = 50 it is 0.
C7_SpeedBasedFluxWeakening ==
    (fwLast.op = "update" /\ fwLast.method = "speed") =>
        /\ FWBaseSpeed = RInt(100)
        /\ IF QGt(fwLast.wr, RInt(100))
           THEN /\ fwLast.ret =
                     QClip(Rat(-(FWParams.flux_linkage * fwLast.iq_ref.d
                                   + FWParams.Lq * fwLast.iq_ref.n),
                               FWParams.Ld * fwLast.iq_ref.d),
                           RInt(-FWParams.max_current), Zero)
                /\ fw.id_fw = fwLast.ret
                /\ fw.in_flux_weakening
           ELSE /\ fwLast.ret = Zero
                /\ fw.id_fw = Zero
                /\ ~fw.in_flux_weakening
                /\ fw.ctl.integral = Zero /\ fw.ctl.prev_error = Zero
        /\ (fwLast.wr = RInt(150) /\ fwLast.iq_ref = RInt(5)) => fwLast.ret.n < 0
        /\ (fwLast.wr = RInt(50)) => fwLast.ret = Zero

\* the scenario: wr = 150 above the base speed of 100 with iq_ref = 5 gave a
\* negative, unclamped d-axis current
C7_Witness ==
    /\ fwLast.op = "update" /\ fwLast.method = "speed"
    /\ fwLast.wr = RInt(150) /\ fwLast.iq_ref = RInt(5)
    /\ fwLast.ret.n < 0 /\ QGt(fwLast.ret, RInt(-FWParams.max_current))
    /\ fw.id_fw = fwLast.ret

\* the residual y - phi.T @ theta of a logged invocation before and after it,
\* and the quadratic form phi.T @ P @ phi
ResidualBefore(c) == XSub(c.y, Dot(c.phi, c.theta))

ResidualAfter(c) == XSub(c.y, Dot(c.phi, c.theta_new))

QuadraticForm(c) == Dot(c.phi, MatVec(c.P, c.phi))

\* C8 as stated: for every reachable estimator and every pair (phi, y) whose
\* denominator lambda + phi^T P phi is at least 1e-10, rls_update makes
\* |y - phi^T theta_new| strictly smaller than |y - phi^T theta|.
C8_RLSStrictlyReducesResidual ==
    \A k \in 1 .. Len(rlsLast.calls) :
        \A c \in {rlsLast.calls[k]} :
            ~XLt(c.denominator, RLSEpsilon) =>
                XLt(XAbs(ResidualAfter(c)), XAbs(ResidualBefore(c)))

\* C8 amended: for such a pair the residual after the update is the residual
\* before it times lambda / (lambda + phi^T P phi); it is strictly smaller in
\* magnitude when the residual before is not zero and phi^T P phi > 0, and
\* when the residual before is zero it stays zero and theta is unchanged.
C8_RLSResidualContracts ==
    \A k \in 1 .. Len(rlsLast.calls) :
        \A c \in {rlsLast.calls[k]} :
            \A before \in {ResidualBefore(c)}, after \in {ResidualAfter(c)} :
                ~XLt(c.denominator, RLSEpsilon) =>
                    /\ XEq(XMul(after, c.denominator), XMul(before, ForgettingFactor))
                    /\ (XSign(before) # 0 /\ XSign(QuadraticForm(c)) > 0)
                           => XLt(XAbs(after), XAbs(before))
                    /\ XSign(before) = 0 =>
                           /\ XSign(after) = 0
                           /\ \A i \in 1 .. Len(c.theta) : XEq(c.theta_new[i], c.theta[i])

\* identify_inductance ran both of its updates, on two-parameter estimators,
\* and each started from a residual that is not zero and made it smaller
C8_Witness ==
    /\ rlsLast.op = "identify_inductance"
    /\ Len(rlsLast.calls) = 2
    /\ \A k \in 1 .. 2 :
           \A c \in {rlsLast.calls[k]} :
               /\ XSign(ResidualBefore(c)) # 0
               /\ XLt(XAbs(ResidualAfter(c)), XAbs(ResidualBefore(c)))

\* the argument of the last call of a history that raised no error, or
\* 'observer' when there is none
RECURSIVE LastSuccessfulMode(_)
LastSuccessfulMode(h) ==
    IF h = <<>> THEN "observer"
    ELSE IF ~h[Len(h)].raised THEN h[Len(h)].mode
    ELSE LastSuccessfulMode(SubSeq(h, 1, Len(h) - 1))

\* C9: set_control_mode raises an error for every value outside
\* {'observer','adaptive','robust','combined'} and leaves control_mode
\* unchanged; after any sequence of calls control_mode is one of the four
\* modes and equals the argument of the last successful call, or 'observer'
\* if there was none.
C9_ControlModeStaysValid ==
    /\ dr.control_mode \in {"observer", "adaptive", "robust", "combined"}
    /\ \A k \in 1 .. Len(drHistory) :
           drHistory[k].raised <=>
               drHistory[k].mode \notin {"observer", "adaptive", "robust", "combined"}
    /\ dr.control_mode = LastSuccessfulMode(drHistory)
    /\ (drLast.op = "set_control_mode" /\ drLast.raised) =>
           dr.control_mode = drLast.before

\* 'robust' was selected, then a string that is no mode was rejected and the
\* mode stayed 'robust'
C9_Witness ==
    /\ Len(drHistory) >= 2
    /\ drHistory[Len(drHistory) - 1] = [mode |-> "robust", raised |-> FALSE]
    /\ drLast.op = "set_control_mode" /\ drLast.mode = "pid" /\ drLast.raised
    /\ dr.control_mode = "robust"

\* C10: update rejects a policy selector outside {'voltage','speed','lookup'}
\* with an error; it never returns a d-axis current for it.
C10_InvalidPolicyRejected ==
    (fwLast.op = "update" /\ fwLast.method \notin {"voltage", "speed", "lookup"}) =>
        fwLast.raised

\* C11: after any sequence of update and reset calls the speed-error, torque
\* and disturbance buffers have the same length, min(number of update calls
\* since the last reset, 1000), and hold the most recent samples in arrival
\* order.
C11_BuffersHoldMostRecent ==
    LET n == Len(drSamples)
        k == IF n < 1000 THEN n ELSE 1000
    IN  /\ Len(drCore.speed_error_buffer) = k
        /\ Len(drCore.torque_buffer) = k
        /\ Len(drCore.disturbance_buffer) = k
        /\ \A i \in 1 .. k :
               /\ drCore.speed_error_buffer[i] = drSamples[n - k + i][1]
               /\ drCore.torque_buffer[i] = drSamples[n - k + i][2]
               /\ drCore.disturbance_buffer[i] = drSamples[n - k + i][3]

\* 1002 update calls since the last reset: two samples have been evicted,
\* and the evicted ones differ from the ones that are now the oldest
C11_Witness ==
    /\ drUpd.op = "update"
    /\ Len(drSamples) = 1002
    /\ Len(drCore.torque_buffer) = 1000
    /\ drSamples[2][2] # drSamples[3][2]
    /\ drSamples[1][1] # drSamples[3][1]
    /\ drSamples[2][3] # drSamples[3][3]
    /\ drCore.torque_buffer[1] = drSamples[3][2]

\* C12: a plant state (id, iq, wr, theta_e) that is NaN or infinite after
\* the integration is reported as an error and not stored: no update call
\* leaves a non-finite value in the plant state, so none is carried into the
\* next call.
C12_NonFiniteStateNotStored ==
    plantNonFinite \cap {"id", "iq", "wr", "theta_e"} = {}

\* C13: constructing or reloading a component from a record whose
\* sample_time, Ld or Lq is not strictly positive fails; no component ever
\* holds a sample_time <= 0 or an inductance <= 0.
C13_InvalidRecordRejected ==
    \A c \in Components :
        \A i \in DOMAIN LoadOrder[c] :
            (/\ LoadOrder[c][i][2] \in {"sample_time", "Ld", "Lq"}
             /\ LoadOrder[c][i][1] \in DOMAIN params[c])
                => params[c][LoadOrder[c][i][1]] > 0

\* the attributes of the components when all of them, and the PI controllers
\* built from them, hold the record of one file
HoldsOneRecord(c) ==
    \E file \in CfgFiles :
        /\ \A k \in Components : ~Construct(k, file).raised
        /\ c = ConstructAll(file)

\* C15: a simulation step never works with a mixture of old and new
\* parameter values across the components and their PI controllers, and a
\* reload that fails part-way leaves every component with the old record.
C15_ReloadAtomic ==
    /\ HoldsOneRecord(observed)
    /\ reload.failed => params = reload.before

\* the simulation_loop threads that have not returned
LoopThreadsAlive == { t \in DOMAIN threads : threads[t] # "returned" }

\* C14: at most one thread at a time executes simulation_step, and while the
\* simulation runs there is never more than one loop thread alive (a pause
\* followed by a start leaves one).
C14_OneLoopThread ==
    /\ Cardinality({ t \in DOMAIN threads : threads[t] = "simulation_step" }) <= 1
    /\ is_running => Cardinality(LoopThreadsAlive) <= 1

\* the calls the tick is to make, in order
TickOrder(fwOn, drOn) ==
    <<"PMSMModel.get_three_phase_currents", "FOCController.update">>
    \o (IF fwOn THEN <<"FluxWeakeningController.update">> ELSE <<>>)
    \o (IF drOn THEN <<"DisturbanceRejectionController.update">> ELSE <<>>)
    \o <<"PMSMModel.update">>

\* C16: a control tick calls phase currents, FOCController.update, the
\* flux-weakening update if enabled, the disturbance-rejection update if
\* enabled and PMSMModel.update in this order, and with flux weakening
\* enabled its output is FOCController.id_ref, the reference the current
\* loop tracks.
C16_TickOrderAndReference ==
    tick.calls # <<>> =>
        /\ tick.calls = TickOrder(tick.enable_flux_weakening,
                                  tick.enable_disturbance_rejection)
        /\ tick.enable_flux_weakening => tick.foc_id_ref = tick.id_fw

\* C17: get_optimal_current_references returns a pair of numbers inside the
\* max_current circle; where the pair before the limit lies outside, the
\* returned pair is a positive multiple of it; a surface-mounted machine at
\* or below base speed gets (0, torque / (1.5 * poles * flux)) before the
\* limit.
C17_OptimalReferencesClamped ==
    optCall.op = "get_optimal_current_references" =>
        LET r       == optCall.ret
            u       == optCall.unclamped
            limitSq == RInt(optCall.p.max_current * optCall.p.max_current)
        IN  /\ r.nan = {}
            /\ QLe(QAdd(OptSq(r.id_ref), OptSq(r.iq_ref)), limitSq)
            /\ QGt(QAdd(OptSq(u.id_ref), OptSq(u.iq_ref)), limitSq) =>
                   /\ OptSign(r.id_ref) = OptSign(u.id_ref)
                   /\ OptSign(r.iq_ref) = OptSign(u.iq_ref)
                   /\ QMul(OptSq(r.id_ref), OptSq(u.iq_ref))
                          = QMul(OptSq(r.iq_ref), OptSq(u.id_ref))
            /\ (optCall.p.Ld = optCall.p.Lq /\ QLe(optCall.wr, FWBaseSpeed)) =>
                   /\ u.id_ref = OptPlain(Zero)
                   /\ u.iq_ref = OptPlain(QDiv(optCall.torque_ref,
                                               QMul(QMul(Rat(3, 2), RInt(optCall.p.poles)),
                                                    RInt(optCall.p.flux_linkage))))

PhaseSum == Fl(Fl(plantLast.phases[1] + plantLast.phases[2]) + plantLast.phases[3])

PhaseMax ==
    LET a == Abs(plantLast.phases[1])
        b == Abs(plantLast.phases[2])
        c == Abs(plantLast.phases[3])
    IN  IF a >= b /\ a >= c THEN a ELSE IF b >= c THEN b ELSE c

\* C19 as stated: the three values get_three_phase_currents returns sum to
\* exactly zero, and the call leaves the plant state unchanged.
C19_PhaseCurrentsSumToZero ==
    plantLast.op = "get_three_phase_currents" =>
        /\ PhaseSum = 0
        /\ plant = plantLast.before

\* C19, amended: the three values sum to zero within floating tolerance, one
\* unit in the last place of the largest of them, and the call leaves the
\* plant state unchanged.
C19_PhaseCurrentsSumWithinTolerance ==
    plantLast.op = "get_three_phase_currents" =>
        /\ Abs(PhaseSum) * 2 ^ (MantBits - 1) <= PhaseMax
        /\ plant = plantLast.before

C19_Witness ==
    /\ plantLast.op = "get_three_phase_currents"
    /\ plant.id # 0 /\ plant.iq # 0 /\ plant.theta_e # 0
    /\ PhaseSum # 0
    /\ plantLast.phases[2] # plantLast.phases[3]

----------------------------------------------------------------------------
(* Flux weakening: the voltage-feedback policy.                            *)

\* C21: under the voltage-feedback policy, once the voltage magnitude has been
\* above voltage_margin * dc_bus_voltage / sqrt(3) on consecutive calls, the
\* returned d-axis current is strictly negative and in_flux_weakening is true.
C21_OverLimitInjectsNegativeCurrent ==
    (fwLast.op = "update" /\ fwLast.run >= 2) =>
        /\ QLt(fwLast.ret, Zero)
        /\ QLt(fw.id_fw, Zero)
        /\ fw.in_flux_weakening

\* what one voltage-policy call with a non-positive voltage error does:
\* in_flux_weakening is false, id_fw is 0.95 times what it was, and only when
\* that product is below 0.01 in magnitude is id_fw set to 0 and the PI state
\* reset
DecayStepOK ==
    (fwLast.op = "update" /\ fwLast.method = "voltage"
        /\ QLe(VoltageError(FWParams, fwLast.vd, fwLast.vq), Zero)) =>
        LET decayed == QMul(fwLast.before.id_fw, Rat(95, 100))
        IN  /\ ~fw.in_flux_weakening
            /\ IF QLt(QAbs(decayed), Rat(1, 100))
               THEN /\ fw.id_fw = Zero /\ fwLast.ret = Zero
                    /\ fw.ctl = PIResetState(fwLast.before.ctl)
               ELSE /\ fw.id_fw = decayed /\ fwLast.ret = decayed
                    /\ fw.ctl = fwLast.before.ctl

\* C22: under the voltage-feedback policy each call with a non-positive
\* voltage error clears in_flux_weakening and multiplies id_fw by 0.95, resets
\* the PI state and zeroes id_fw only in the call where the product falls
\* below 0.01; a run of such calls reaches id_fw = 0 and stays there.
C22_DecayReachesZero == [] DecayStepOK /\ <>[](fw.id_fw = Zero)

C22_Witness ==
    /\ fwLast.op = "update" /\ fwLast.method = "voltage"
    /\ QLt(fwLast.before.id_fw, Zero) /\ fw.id_fw = Zero
    /\ fwLast.before.id_fw.d > 10000

\* C23: after any sequence of update calls mixing the three policies, every
\* returned d-axis current and the stored id_fw lie in [-max_current, 0]; the
\* lookup policy returns 0 whenever wr <= base_speed (negative wr included) and
\* leaves id_fw, in_flux_weakening and the PI state as they were.
C23_WeakeningCurrentInRange ==
    /\ QLe(RInt(-FWParams.max_current), fw.id_fw) /\ QLe(fw.id_fw, Zero)
    /\ fwLast.op = "update" =>
          /\ QLe(RInt(-FWParams.max_current), fwLast.ret) /\ QLe(fwLast.ret, Zero)
          /\ fwLast.method = "lookup" =>
                /\ fw = fwLast.before
                /\ QLe(fwLast.wr, FWBaseSpeed) => fwLast.ret = Zero

C23_Witness ==
    /\ fwLast.op = "update" /\ fwLast.method = "lookup"
    /\ QLt(fwLast.wr, Zero) /\ QLt(fwLast.iq_ref, Zero)
    /\ QLt(fw.id_fw, Zero) /\ fw.in_flux_weakening
    /\ fwLast.ret = Zero

----------------------------------------------------------------------------
(* Disturbance rejection: the bundle update returns, gain adaptation and    *)
(* the sliding-mode law.                                                    *)

\* C24: in each of the four modes DisturbanceRejectionController.update
\* completes without error and returns a bundle whose id_ref_modified is the
\* input id_ref; iq_ref_modified is iq_ref + d / (1.5 * poles * flux_linkage)
\* in observer mode and iq_ref in adaptive mode (robust and combined add the
\* scaled sliding-mode term).
C24_UpdateCompletesInEveryMode ==
    drUpd.op = "update" =>
        /\ ~drUpd.raised
        /\ drUpd.ret.id_ref_modified = drUpd.id_ref
        /\ drUpd.mode = "observer" =>
              drUpd.ret.iq_ref_modified =
                  QAdd(drUpd.iq_ref, FeedForward(DRParams, drUpd.ret.disturbance_estimate))
        /\ drUpd.mode = "adaptive" => drUpd.ret.iq_ref_modified = drUpd.iq_ref

\* the gain update_gains leaves: 1.01 times the gain when the energy is above
\* the threshold, 0.995 times otherwise, brought into [0.1, 10]
ScaledGain(gain, energy, threshold) ==
    QClip(QMul(gain, IF QGt(energy, threshold) THEN Rat(101, 100) ELSE Rat(199, 200)),
          Rat(1, 10), RInt(10))

\* the energy of a loop after this tick's squared error is added
EnergyAfter(before, error) == QAdd(before, QMul(QMul(error, error), DRParams.sample_time))

\* C25: update_gains scales each loop's gain pair by (1 + adaptation_rate)
\* when that loop's accumulated squared-error energy, this tick's contribution
\* included, exceeds its threshold (0.1 for the current loops, 1.0 for the speed
\* loop) and by (1 - adaptation_rate / 2) otherwise, each loop on its own, and
\* after the call all six gains lie in [0.1, 10].
C25_GainsScaledAndBounded ==
    drUpd.op = "update_gains" =>
        LET b   == drUpd.before
            a   == drCore.adaptive
            idE == EnergyAfter(b.id_error_integral, drUpd.id_error)
            iqE == EnergyAfter(b.iq_error_integral, drUpd.iq_error)
            spE == EnergyAfter(b.speed_error_integral, drUpd.speed_error)
        IN  /\ a.id_kp = ScaledGain(b.id_kp, idE, Rat(1, 10))
            /\ a.id_ki = ScaledGain(b.id_ki, idE, Rat(1, 10))
            /\ a.iq_kp = ScaledGain(b.iq_kp, iqE, Rat(1, 10))
            /\ a.iq_ki = ScaledGain(b.iq_ki, iqE, Rat(1, 10))
            /\ a.speed_kp = ScaledGain(b.speed_kp, spE, RInt(1))
            /\ a.speed_ki = ScaledGain(b.speed_ki, spE, RInt(1))
            /\ \A f \in DOMAIN GetAdaptiveGains(a) :
                   QLe(Rat(1, 10), a[f]) /\ QLe(a[f], RInt(10))

\* the d-axis pair is scaled down while the q-axis pair is scaled up, in a
\* call that finds the speed energy exactly at its threshold
C25_Witness ==
    /\ drUpd.op = "update_gains"
    /\ QLt(drCore.adaptive.id_ki, drUpd.before.id_ki)
    /\ QGt(drCore.adaptive.iq_ki, drUpd.before.iq_ki)
    /\ EnergyAfter(drUpd.before.speed_error_integral, drUpd.speed_error) = RInt(1)
    /\ QLt(drCore.adaptive.speed_ki, drUpd.before.speed_ki)

\* the sliding surface of the call just made
SMCSurface == QAdd(drUpd.error_dot, QMul(RInt(10), drUpd.error))

\* the switching term of the call just made: what the returned value holds
\* beyond -e_dot - lambda * e - d
SMCSwitching ==
    QAdd(QAdd(drUpd.ret, drUpd.disturbance_estimate),
         QAdd(drUpd.error_dot, QMul(RInt(10), drUpd.error)))

\* C26: sliding_mode_control(e, e_dot, d) returns -e_dot - lambda*e + sw - d
\* with s = e_dot + lambda*e, sw = -k*s/delta for |s| < delta and -k*sign(s)
\* for |s| >= delta (lambda = 10, k = 10, delta = 0.1); |sw| <= k, and at
\* |s| = delta the value -k*sign(s) equals -k*s/delta.
C26_SlidingModeLaw ==
    drUpd.op = "sliding_mode_control" =>
        /\ drCore.robust.sliding_surface = SMCSurface
        /\ QLt(QAbs(SMCSurface), Rat(1, 10)) =>
              SMCSwitching = QMul(RInt(-100), SMCSurface)
        /\ QGe(QAbs(SMCSurface), Rat(1, 10)) =>
              SMCSwitching = RInt(-10 * Sign(SMCSurface.n))
        /\ QLe(QAbs(SMCSwitching), RInt(10))
        /\ QAbs(SMCSurface) = Rat(1, 10) =>
              SMCSwitching = QMul(RInt(-100), SMCSurface)

C26_Witness ==
    /\ drUpd.op = "sliding_mode_control"
    /\ SMCSurface = Rat(-1, 10)
    /\ drUpd.error_dot # Zero /\ drUpd.disturbance_estimate # Zero
    /\ SMCSwitching = RInt(10)

----------------------------------------------------------------------------
(* Parameter identification: which axis and which estimators a call uses.  *)

\* C27: below the speed threshold identify_resistance regresses the axis that
\* carries the larger current magnitude against that axis's own voltage:
\* (iq, vq) if |iq| > |id|, otherwise (id, vd).
C27_ResistanceUsesLargerAxis ==
    (/\ rlsLast.op = "identify_resistance"
     /\ Abs(rlsLast.args[5]) < 10
     /\ rlsLast.calls # <<>>) =>
        LET vd == rlsLast.args[1]
            id == rlsLast.args[2]
            vq == rlsLast.args[3]
            iq == rlsLast.args[4]
            c  == rlsLast.calls[1]
        IN  IF Abs(iq) > Abs(id)
            THEN c.phi = <<XInt(iq)>> /\ c.y = XInt(vq)
            ELSE c.phi = <<XInt(id)>> /\ c.y = XInt(vd)

\* the sample <<vd, id, vq, iq, wr, Te>> the last update call was given
LastSample == ProfileSample(identRun.profile, identRun.updates)

\* C28: in one update call the resistance estimator is modified only if
\* |wr| < 10 and the inductance and flux estimators only if |wr| > 10 (none of
\* the three at |wr| = 10), the flux estimator only if also |iq| > 0.1, and the
\* first update after a reset modifies neither the inductance nor the
\* mechanical estimator.
C28_EstimatorsGatedBySpeed ==
    (identRun.op = "update" /\ identRun.enabled) =>
        LET b == identRun.before
        IN  /\ ident.Rs_estimator # b.Rs_estimator => Abs(LastSample[5]) < 10
            /\ (ident.L_estimator # b.L_estimator \/ ident.Ld_identified # b.Ld_identified
                    \/ ident.Lq_identified # b.Lq_identified)
                   => Abs(LastSample[5]) > 10
            /\ ident.flux_estimator # b.flux_estimator =>
                   Abs(LastSample[5]) > 10 /\ Abs(LastSample[4]) * 10 > 1
            /\ ~(ident.Rs_estimator # b.Rs_estimator
                     /\ (ident.L_estimator # b.L_estimator
                            \/ ident.flux_estimator # b.flux_estimator))
            /\ b.current_buffer = <<>> =>
                   /\ ident.L_estimator = b.L_estimator
                   /\ ident.Lq_identified = b.Lq_identified
                   /\ ident.mech_estimator = b.mech_estimator

\* the third call of a run: above the threshold with changing currents and no
\* q-axis current, after a first call at standstill and a second below the
\* threshold
C28_Witness ==
    /\ identRun.op = "update" /\ identRun.enabled /\ identRun.updates = 3
    /\ LastSample[5] = -12 /\ LastSample[4] = 0
    /\ ident.L_estimator # identRun.before.L_estimator
    /\ ident.mech_estimator # identRun.before.mech_estimator
    /\ ident.flux_estimator = identRun.before.flux_estimator
    /\ ident.Rs_estimator = identRun.before.Rs_estimator

----------------------------------------------------------------------------
(* Field-oriented control: the modulator and the voltage command.           *)

\* a number of the modulator lies in [0, 1]
InUnitInterval(x) == Q3Sign(x) >= 0 /\ Q3Le(x, Q3Rat(RInt(1)))

\* C30: for every alpha-beta voltage vector of magnitude at most
\* dc_bus_voltage / sqrt(3), space_vector_modulation returns three duty cycles
\* in [0, 1], and t1 and t2 of the selected sector are non-negative.
C30_DutyCyclesInUnitInterval ==
    (/\ svm.op = "space_vector_modulation"
     /\ Q3Le(Q3Rat(svm.magnitude), Q3Div(FOCDcBus, Sqrt3))) =>
        /\ \A i \in 1 .. 3 : InUnitInterval(svm.duty[i])
        /\ Q3Sign(svm.t1) >= 0
        /\ Q3Sign(svm.t2) >= 0

\* C29: after every FOCController.update call the voltage command lies inside
\* the circle of radius dc_bus_voltage/sqrt(3): vd^2 + vq^2 <= v_max^2, with
\* both components scaled by the one factor; the vd and vq returned are the
\* ones stored on the controller; and the iq_ref returned lies in
\* [-max_current, max_current].
CommandMagSq(vd, vq) ==
    QMul(QAdd(QMul(vd.base, vd.base), QMul(vq.base, vq.base)), vd.sq)

====
